---- MODULE Spec2Model ----
(***************************************************************************)
(* Controller service of the BeeGFS CSI driver: the create / delete /      *)
(* validate handlers, the per-volume-ID lock, the volume ID codec and the  *)
(* mount / unmount orchestration they are built on.                        *)
(*                                                                         *)
(* Spec and SpecSeq are the controller with concurrent workers and with    *)
(* one worker. SpecUtil calls the functions of beegfs_util.go on their     *)
(* own, SpecCodec the volume ID codec and sanitizeVolumeID, and SpecConfig *)
(* the functions that parse and merge the plugin configuration; the        *)
(* variable call holds the arguments and the result of such a call.        *)
(*                                                                         *)
(* Go strings are modelled as sequences of one-character strings, so that  *)
(* strings.Replace, path.Join, path.Clean and the URL codec are computed   *)
(* character by character, as the library computes them.                   *)
(***************************************************************************)
EXTENDS Integers, Sequences, FiniteSets, TLC

\* ------------------------------------------------------------------------
\* Strings
\* ------------------------------------------------------------------------

\* s[i..] (1-based), the empty string when i is past the end.
Drop(s, n) == SubSeq(s, n + 1, Len(s))

Take(s, n) == SubSeq(s, 1, n)

\* strings.HasPrefix
HasPrefix(s, p) == Len(p) <= Len(s) /\ Take(s, Len(p)) = p

\* The least position of a set of positions, 0 when there is none.
FirstOf(positions) ==
    IF positions = {} THEN 0
    ELSE CHOOSE i \in positions : \A j \in positions : i <= j

\* The first occurrence of sub in s at i or after it.
IndexFrom(s, sub, i) ==
    FirstOf({j \in i..(Len(s) - Len(sub) + 1) : SubSeq(s, j, j + Len(sub) - 1) = sub})

\* strings.Index, 1-based; 0 when sub does not occur in s.
Index(s, sub) == IndexFrom(s, sub, 1)

\* strings.Contains
Contains(s, sub) == Index(s, sub) # 0

\* The strings pieces[lo], ..., pieces[hi] one after the other.
RECURSIVE Concat(_, _, _)
Concat(pieces, lo, hi) ==
    IF lo > hi THEN <<>>
    ELSE IF lo = hi THEN pieces[lo]
    ELSE Concat(pieces, lo, (lo + hi) \div 2) \o Concat(pieces, (lo + hi) \div 2 + 1, hi)

\* strings.Replace(s, old, new, n) for a non-empty old; n < 0 replaces every
\* (non-overlapping, leftmost first) occurrence. The occurrences of an old of
\* one character are its positions, each replaced where it stands.
RECURSIVE Replace(_, _, _, _)
Replace(s, old, new, n) ==
    IF Len(old) = 1 /\ n < 0
    THEN Concat([i \in DOMAIN s |-> IF s[i] = old[1] THEN new ELSE <<s[i]>>], 1, Len(s))
    ELSE LET i == Index(s, old) IN
         IF n = 0 \/ i = 0 THEN s
         ELSE Take(s, i - 1) \o new
              \o Replace(Drop(s, i - 1 + Len(old)), old, new, IF n < 0 THEN n ELSE n - 1)

\* strings.Split(s, "/") restricted to the separator "/".
RECURSIVE SplitSlash(_)
SplitSlash(s) ==
    LET i == Index(s, <<"/">>) IN
    IF i = 0 THEN <<s>>
    ELSE <<Take(s, i - 1)>> \o SplitSlash(Drop(s, i))

\* strings.Join(elems, "/")
RECURSIVE JoinSlash(_)
JoinSlash(elems) ==
    IF elems = <<>> THEN <<>>
    ELSE IF Len(elems) = 1 THEN elems[1]
    ELSE elems[1] \o <<"/">> \o JoinSlash(Tail(elems))

\* ------------------------------------------------------------------------
\* path.Clean and path.Join (package path of the Go library)
\* ------------------------------------------------------------------------

DotDot == <<".", ".">>

\* The lexical processing of path.Clean on the list of path elements: "" and
\* "." are dropped, ".." removes the element before it, a ".." at the root of
\* a rooted path is dropped and a leading ".." of a relative path is kept.
RECURSIVE CleanElems(_, _, _)
CleanElems(elems, out, rooted) ==
    IF elems = <<>> THEN out
    ELSE LET e == Head(elems)
             rest == Tail(elems)
         IN  IF e = <<>> \/ e = <<".">> THEN CleanElems(rest, out, rooted)
             ELSE IF e = DotDot
             THEN IF out # <<>> /\ out[Len(out)] # DotDot
                  THEN CleanElems(rest, Take(out, Len(out) - 1), rooted)
                  ELSE IF rooted THEN CleanElems(rest, out, rooted)
                  ELSE CleanElems(rest, Append(out, e), rooted)
             ELSE CleanElems(rest, Append(out, e), rooted)

pathClean(p) ==
    IF p = <<>> THEN <<".">>
    ELSE LET rooted == p[1] = "/"
             cleaned(body) == IF rooted THEN <<"/">> \o body
                              ELSE IF body = <<>> THEN <<".">> ELSE body
         IN  cleaned(JoinSlash(CleanElems(SplitSlash(p), <<>>, rooted)))

\* path.Join(a, b): the non-empty arguments joined by "/", then cleaned; the
\* empty string when both are empty.
pathJoin(a, b) ==
    IF a = <<>> /\ b = <<>> THEN <<>>
    ELSE IF a = <<>> THEN pathClean(b)
    ELSE IF b = <<>> THEN pathClean(a)
    ELSE pathClean(a \o <<"/">> \o b)

\* ------------------------------------------------------------------------
\* Characters
\* ------------------------------------------------------------------------

LowerLetters ==
    <<"a", "b", "c", "d", "e", "f", "g", "h", "i", "j", "k", "l", "m",
      "n", "o", "p", "q", "r", "s", "t", "u", "v", "w", "x", "y", "z">>

UpperLetters ==
    <<"A", "B", "C", "D", "E", "F", "G", "H", "I", "J", "K", "L", "M",
      "N", "O", "P", "Q", "R", "S", "T", "U", "V", "W", "X", "Y", "Z">>

Digits == <<"0", "1", "2", "3", "4", "5", "6", "7", "8", "9">>

HexDigits == Digits \o <<"a", "b", "c", "d", "e", "f">>

Range(f) == {f[i] : i \in DOMAIN f}

\* Position of c in seq, 0 when absent.
PosIn(seq, c) == IF c \in Range(seq) THEN CHOOSE i \in DOMAIN seq : seq[i] = c ELSE 0

IsLetter(c) == c \in Range(LowerLetters) \cup Range(UpperLetters)

IsDigit(c) == c \in Range(Digits)

\* strings.ToLower on one character
ToLowerChar(c) == IF c \in Range(UpperLetters) THEN LowerLetters[PosIn(UpperLetters, c)] ELSE c

ToLower(s) == [i \in DOMAIN s |-> ToLowerChar(s[i])]

\* ------------------------------------------------------------------------
\* net/url as used by the volume ID codec
\* ------------------------------------------------------------------------

\* The characters of the model's alphabet that url.URL.String percent-encodes
\* in a host or path, each with its escape.
PctEscapes ==
    { <<" ", <<"%", "2", "0">> >>,
      <<"%", <<"%", "2", "5">> >>,
      <<"?", <<"%", "3", "F">> >>,
      <<"#", <<"%", "2", "3">> >> }

ShouldEscape(c) == \E e \in PctEscapes : e[1] = c

EscapeChar(c) == IF ShouldEscape(c) THEN (CHOOSE e \in PctEscapes : e[1] = c)[2] ELSE <<c>>

\* url.escape in the mode encodePath
RECURSIVE Escape(_)
Escape(s) == IF s = <<>> THEN <<>> ELSE EscapeChar(Head(s)) \o Escape(Tail(s))

\* url.escape in the mode encodeHost: the slash and the at sign are encoded
\* too.
RECURSIVE EscapeHost(_)
EscapeHost(s) ==
    IF s = <<>> THEN <<>>
    ELSE (CASE Head(s) = "/" -> <<"%", "2", "F">>
            [] Head(s) = "@" -> <<"%", "4", "0">>
            [] OTHER -> EscapeChar(Head(s)))
         \o EscapeHost(Tail(s))

IsHex(c) == c \in Range(HexDigits) \cup {"A", "B", "C", "D", "E", "F"}

\* url.unescape: every %XX is decoded; a % that is not followed by two hex
\* digits is an error. XX outside the table decodes to a character outside the
\* model's alphabet, written "?XX".
RECURSIVE UnescapeOK(_)
UnescapeOK(s) ==
    IF s = <<>> THEN TRUE
    ELSE IF Head(s) = "%"
         THEN Len(s) >= 3 /\ IsHex(s[2]) /\ IsHex(s[3]) /\ UnescapeOK(Drop(s, 3))
         ELSE UnescapeOK(Tail(s))

RECURSIVE Unescape(_)
Unescape(s) ==
    IF s = <<>> THEN <<>>
    ELSE IF Head(s) = "%" /\ Len(s) >= 3
         THEN LET code == Take(s, 3)
                  known == {e \in PctEscapes : e[2] = code}
              IN  (IF known # {} THEN <<(CHOOSE e \in known : TRUE)[1]>> ELSE <<"?XX">>)
                  \o Unescape(Drop(s, 3))
         ELSE <<Head(s)>> \o Unescape(Tail(s))

\* url.unescape in the mode encodeHost returns no error: a %XX must stand for
\* a byte of 0x80 or more, or be %25, and a character that url.escape would
\* encode in a host must not stand unencoded.
RECURSIVE UnescapeHostOK(_)
UnescapeHostOK(s) ==
    IF s = <<>> THEN TRUE
    ELSE IF Head(s) = "%"
         THEN /\ Len(s) >= 3 /\ IsHex(s[2]) /\ IsHex(s[3])
              /\ (s[2] \notin {"0", "1", "2", "3", "4", "5", "6", "7"}
                     \/ Take(s, 3) = <<"%", "2", "5">>)
              /\ UnescapeHostOK(Drop(s, 3))
         ELSE Head(s) \notin {" ", "?", "#", "/", "@"} /\ UnescapeHostOK(Tail(s))

SchemePrefix == <<"b", "e", "e", "g", "f", "s", ":", "/", "/">>

BeegfsScheme == <<"b", "e", "e", "g", "f", "s">>

\* newBeegfsUrl: url.URL{Scheme: "beegfs", Host: host, Path: path}.String()
newBeegfsUrl(host, path) ==
    SchemePrefix \o EscapeHost(host)
    \o (IF path # <<>> /\ path[1] # "/" /\ host # <<>> THEN <<"/">> ELSE <<>>)
    \o Escape(path)

\* url.getScheme: the leading [a-zA-Z][a-zA-Z0-9+-.]* before a colon. A result
\* of <<>> is "no scheme"; err is the "missing protocol scheme" error.
RECURSIVE getSchemeFrom(_, _)
getSchemeFrom(raw, i) ==
    IF i > Len(raw) THEN [scheme |-> <<>>, rest |-> raw, err |-> FALSE]
    ELSE IF IsLetter(raw[i]) THEN getSchemeFrom(raw, i + 1)
    ELSE IF IsDigit(raw[i]) \/ raw[i] \in {"+", "-", "."}
         THEN IF i = 1 THEN [scheme |-> <<>>, rest |-> raw, err |-> FALSE]
              ELSE getSchemeFrom(raw, i + 1)
    ELSE IF raw[i] = ":"
         THEN IF i = 1 THEN [scheme |-> <<>>, rest |-> <<>>, err |-> TRUE]
              ELSE [scheme |-> Take(raw, i - 1), rest |-> Drop(raw, i), err |-> FALSE]
    ELSE [scheme |-> <<>>, rest |-> raw, err |-> FALSE]

\* Last index of c in s, 0 when absent.
LastIndexChar(s, c) ==
    IF c \in Range(s) THEN CHOOSE i \in DOMAIN s : s[i] = c /\ \A j \in DOMAIN s : s[j] = c => j <= i
    ELSE 0

\* url.parseAuthority / parseHost for a host that does not begin with "[":
\* user information up to the last "@" is dropped, what follows the last
\* colon must be all digits (a port), the host is unescaped and keeps its
\* port.
parseAuthority(authority) ==
    LET at == LastIndexChar(authority, "@")
        host == IF at = 0 THEN authority ELSE Drop(authority, at)
        colon == LastIndexChar(host, ":")
        port == IF colon = 0 THEN <<>> ELSE Drop(host, colon)
    IN  IF (\E i \in DOMAIN port : ~IsDigit(port[i])) \/ ~UnescapeHostOK(host)
        THEN [host |-> <<>>, err |-> TRUE]
        ELSE [host |-> Unescape(host), err |-> FALSE]

\* s up to the first occurrence of the character c, all of s without one.
Before(s, c) ==
    LET i == Index(s, <<c>>) IN
    IF i = 0 THEN s ELSE Take(s, i - 1)

\* The result of a url.Parse that failed.
urlParseFailed == [scheme |-> <<>>, host |-> <<>>, path |-> <<>>, err |-> TRUE]

\* url.parse after the scheme: "//authority/path" with the authority up to
\* the first slash.
urlParseAuthority(scheme, after) ==
    LET slash == Index(after, <<"/">>)
        hostAndPath(a, p) ==
            IF a.err \/ ~UnescapeOK(p) THEN urlParseFailed
            ELSE [scheme |-> scheme, host |-> a.host, path |-> Unescape(p), err |-> FALSE]
    IN  hostAndPath(parseAuthority(IF slash = 0 THEN after ELSE Take(after, slash - 1)),
                    IF slash = 0 THEN <<>> ELSE Drop(after, slash - 1))

\* url.parse after the scheme and without the query: rest is what follows the
\* colon of the scheme.
urlParseRest(scheme, rest) ==
    IF ~HasPrefix(rest, <<"/">>)
    THEN IF scheme # <<>>
         THEN \* an opaque URL: neither host nor path
              [scheme |-> scheme, host |-> <<>>, path |-> <<>>, err |-> FALSE]
         ELSE IF Contains(Head(SplitSlash(rest)), <<":">>) \/ ~UnescapeOK(rest)
              THEN urlParseFailed
              ELSE [scheme |-> <<>>, host |-> <<>>, path |-> Unescape(rest), err |-> FALSE]
    ELSE IF HasPrefix(rest, <<"/", "/">>) /\ (scheme # <<>> \/ ~HasPrefix(rest, <<"/", "/", "/">>))
    THEN urlParseAuthority(scheme, Drop(rest, 2))
    ELSE IF ~UnescapeOK(rest) THEN urlParseFailed
         ELSE [scheme |-> scheme, host |-> <<>>, path |-> Unescape(rest), err |-> FALSE]

\* url.Parse for the parts parseBeegfsUrl reads: Scheme (lower-cased), Host,
\* Path. The fragment is cut off first, then the scheme, then the query.
urlParse(rawUrl) ==
    LET afterScheme(sch) ==
            IF sch.err THEN urlParseFailed
            ELSE urlParseRest(ToLower(sch.scheme), Before(sch.rest, "?"))
    IN  afterScheme(getSchemeFrom(Before(rawUrl, "#"), 1))

\* parseBeegfsUrl: (sysMgmtdHost, path, err)
parseBeegfsUrl(rawUrl) ==
    LET parsed(u) ==
            IF u.err \/ u.scheme # BeegfsScheme
            THEN [sysMgmtdHost |-> <<>>, path |-> <<>>, err |-> TRUE]
            ELSE [sysMgmtdHost |-> u.host, path |-> u.path, err |-> FALSE]
    IN  parsed(urlParse(rawUrl))

\* ------------------------------------------------------------------------
\* sanitizeVolumeID
\* ------------------------------------------------------------------------

\* The longest directory name sanitizeVolumeID returns unhashed.
MaxFileNameLen == 255

\* Hexadecimal characters of a SHA-1 digest.
Sha1HexLen == 40

\* Every character the model's strings are written in; a character's code is
\* its position.
Alphabet ==
    LowerLetters \o UpperLetters \o Digits \o <<"/", "_", ".", ":", "%", " ", "?", "#", "-", "@">>

\* fmt.Sprintf("%x", sha1.Sum(...)): a deterministic digest of fixed width. The
\* model's digest is a position-weighted checksum, not SHA-1: it stands for
\* the width and the determinism of the hash, not its collision resistance.
RECURSIVE WeightedSumOf(_, _, _, _)
WeightedSumOf(s, lo, hi, k) ==
    IF lo > hi THEN 0
    ELSE IF lo = hi THEN ((lo + k) * PosIn(Alphabet, s[lo])) % 16
    ELSE (WeightedSumOf(s, lo, (lo + hi) \div 2, k)
          + WeightedSumOf(s, (lo + hi) \div 2 + 1, hi, k)) % 16

WeightedSum(s, i, k) == WeightedSumOf(s, i, Len(s), k)

Sha1Hex(s) == [k \in 1..Sha1HexLen |-> HexDigits[1 + WeightedSum(s, 1, k)]]

sanitizeVolumeIDHashingFrom255(volumeID) ==
    LET noScheme == Replace(volumeID, SchemePrefix, <<>>, 1)
        doubled == Replace(noScheme, <<"_">>, <<"_", "_">>, -1)
        hashed(sanitizedVolumeID) ==
            IF Len(sanitizedVolumeID) >= MaxFileNameLen THEN Sha1Hex(volumeID)
            ELSE sanitizedVolumeID
    IN  hashed(Replace(doubled, <<"/">>, <<"_">>, -1))

sanitizeVolumeID(volumeID) ==
    LET noScheme == Replace(volumeID, SchemePrefix, <<>>, 1)
        doubled == Replace(noScheme, <<"_">>, <<"_", "_">>, -1)
        hashed(sanitizedVolumeID) ==
            IF Len(sanitizedVolumeID) > MaxFileNameLen THEN Sha1Hex(volumeID)
            ELSE sanitizedVolumeID
    IN  hashed(Replace(doubled, <<"/">>, <<"_">>, -1))

\* ------------------------------------------------------------------------
\* Requests
\* ------------------------------------------------------------------------

\* A CreateVolume parameter key is the list of its "/"-separated parts:
\* "permissions/mode" is <<"permissions", "mode">>.
sysMgmtdHostKey == <<"sysMgmtdHost">>
volDirBasePathKey == <<"volDirBasePath">>
permissionsUIDKey == <<"permissions", "uid">>
permissionsGIDKey == <<"permissions", "gid">>
permissionsModeKey == <<"permissions", "mode">>
stripePatternStoragePoolIDKey == <<"stripePattern", "storagePoolID">>
stripePatternChunkSizeKey == <<"stripePattern", "chunkSize">>
stripePatternNumTargetsKey == <<"stripePattern", "numTargets">>

\* Request parameters are a set of [k, v] pairs with distinct keys.
HasKey(params, key) == \E kv \in params : kv.k = key

Get(params, key) == (CHOOSE kv \in params : kv.k = key).v

\* strconv.ParseUint(val, base, bitSize) succeeds: val is a non-empty run of
\* digits of the base whose value is at most maxDigits, the largest value of
\* bitSize bits written in that base.
StripZeros(val) ==
    LET nz == {i \in DOMAIN val : val[i] # "0"} IN
    IF nz = {} THEN <<>> ELSE Drop(val, (CHOOSE i \in nz : \A j \in nz : i <= j) - 1)

DigitVal(c) == PosIn(Digits, c) - 1

\* a <= b for digit strings of equal length
RECURSIVE DigitsLeq(_, _)
DigitsLeq(a, b) ==
    IF a = <<>> THEN TRUE
    ELSE IF DigitVal(Head(a)) < DigitVal(Head(b)) THEN TRUE
    ELSE IF DigitVal(Head(a)) > DigitVal(Head(b)) THEN FALSE
    ELSE DigitsLeq(Tail(a), Tail(b))

ParseUintOK(val, base, maxDigits) ==
    /\ val # <<>>
    /\ \A i \in DOMAIN val : IsDigit(val[i]) /\ DigitVal(val[i]) < base
    /\ LET v == StripZeros(val) IN
       \/ Len(v) < Len(maxDigits)
       \/ Len(v) = Len(maxDigits) /\ DigitsLeq(v, maxDigits)

RECURSIVE ParseUintValue(_, _, _)
ParseUintValue(val, base, acc) ==
    IF val = <<>> THEN acc
    ELSE ParseUintValue(Tail(val), base, acc * base + DigitVal(Head(val)))

MaxUint32Digits == <<"4", "2", "9", "4", "9", "6", "7", "2", "9", "5">>

MaxMode12Digits == <<"7", "7", "7", "7">>

\* permissionsConfig{mode: defaultPermissionsMode}: 0755
defaultPermissionsMode == <<"0", "7", "5", "5">>

\* getPermissionsConfigFromParams: the error, and the mode of the result.
permissionsParamsErr(reqParams) ==
    \E kv \in reqParams :
        /\ kv.k[1] = "permissions" /\ Len(kv.k) > 1
        /\ \/ kv.k = permissionsUIDKey /\ ~ParseUintOK(kv.v, 10, MaxUint32Digits)
           \/ kv.k = permissionsGIDKey /\ ~ParseUintOK(kv.v, 10, MaxUint32Digits)
           \/ kv.k = permissionsModeKey /\ ~ParseUintOK(kv.v, 8, MaxMode12Digits)
           \/ kv.k \notin {permissionsUIDKey, permissionsGIDKey, permissionsModeKey}

permissionsMode(reqParams) ==
    ParseUintValue(IF HasKey(reqParams, permissionsModeKey)
                   THEN Get(reqParams, permissionsModeKey)
                   ELSE defaultPermissionsMode, 8, 0)

\* permissionsConfig.hasSpecialPermissions: one of the setuid, setgid and
\* sticky bits, the first octal digit of a four digit mode, is set.
hasSpecialPermissions(mode) == mode \div 512 # 0

\* getStripePatternConfigFromParams: the error.
stripePatternParamsErr(reqParams) ==
    \E kv \in reqParams :
        /\ \E i \in 1..(Len(kv.k) - 1) : kv.k[i] = "stripePattern"
        /\ kv.k \notin {stripePatternStoragePoolIDKey, stripePatternChunkSizeKey,
                        stripePatternNumTargetsKey}

\* isValidVolumeCapabilities: every requested capability is in the supported
\* matrix (mount access type, any access mode); a raw block volume is not.
SupportedCapabilities == {"MOUNT_MULTI_NODE_MULTI_WRITER", "MOUNT_SINGLE_NODE_WRITER"}

isValidVolumeCapabilities(volCaps) == \A i \in DOMAIN volCaps : volCaps[i] \in SupportedCapabilities

\* ------------------------------------------------------------------------
\* Configuration: beegfsConfig and PluginConfig
\* ------------------------------------------------------------------------

\* A Go map[string]string: nil or not, and its entries as a function. Only a
\* map that is not nil can be assigned to.
GoMap(isNil, kv) == [isNil |-> isNil, kv |-> kv]

NoEntries == [k \in {} |-> ""]

\* A beegfsConfig; the lists are sequences, nil and empty alike of length 0.
beegfsConfig(connInterfaces, connNetFilter, connTcpOnlyFilter, beegfsClientConf, connAuth) ==
    [ ConnInterfaces |-> connInterfaces,
      ConnNetFilter |-> connNetFilter,
      ConnTcpOnlyFilter |-> connTcpOnlyFilter,
      BeegfsClientConf |-> beegfsClientConf,
      connAuth |-> connAuth ]

\* newBeegfsConfig: BeegfsClientConf: make(map[string]string)
newBeegfsConfig == beegfsConfig(<<>>, <<>>, <<>>, GoMap(FALSE, NoEntries), "")

\* The zero beegfsConfig, and what yaml.UnmarshalStrict leaves of a
\* configuration that names no beegfsClientConf: the map is nil.
zeroBeegfsConfig == beegfsConfig(<<>>, <<>>, <<>>, GoMap(TRUE, NoEntries), "")

\* for k, v := range writeFrom { c[k] = v }
MergeEntries(c, writeFrom) ==
    [k \in DOMAIN c \cup DOMAIN writeFrom |-> IF k \in DOMAIN writeFrom THEN writeFrom[k] ELSE c[k]]

\* (*beegfsConfig).overwriteFrom: the receiver after the call, and whether the
\* call panicked. The lists and connAuth are assigned before the loop over
\* the map; the first assignment to an entry of a nil map panics.
overwriteFrom(c, writeFrom) ==
    LET assigned ==
            [c EXCEPT
                !.ConnInterfaces = IF Len(writeFrom.ConnInterfaces) # 0
                                   THEN writeFrom.ConnInterfaces ELSE @,
                !.ConnNetFilter = IF Len(writeFrom.ConnNetFilter) # 0
                                  THEN writeFrom.ConnNetFilter ELSE @,
                !.ConnTcpOnlyFilter = IF Len(writeFrom.ConnTcpOnlyFilter) # 0
                                      THEN writeFrom.ConnTcpOnlyFilter ELSE @,
                !.connAuth = IF writeFrom.connAuth # "" THEN writeFrom.connAuth ELSE @]
    IN  IF DOMAIN writeFrom.BeegfsClientConf.kv = {} THEN [panic |-> FALSE, c |-> assigned]
        ELSE IF c.BeegfsClientConf.isNil THEN [panic |-> TRUE, c |-> assigned]
        ELSE [panic |-> FALSE,
              c |-> [assigned EXCEPT !.BeegfsClientConf.kv =
                        MergeEntries(@, writeFrom.BeegfsClientConf.kv)]]

FileSystemSpecificConfig(sysMgmtdHost, config) ==
    [SysMgmtdHost |-> sysMgmtdHost, Config |-> config]

PluginConfig(defaultConfig, fileSystemSpecificConfigs) ==
    [DefaultConfig |-> defaultConfig, FileSystemSpecificConfigs |-> fileSystemSpecificConfigs]

\* The loop of squashConfigForSysMgmtdHost over the file system specific
\* configurations, from the i-th on.
RECURSIVE squashFrom(_, _, _, _)
squashFrom(returnConfig, sysMgmtdHost, configs, i) ==
    IF i > Len(configs) THEN returnConfig
    ELSE squashFrom(IF sysMgmtdHost = configs[i].SysMgmtdHost
                    THEN overwriteFrom(returnConfig, configs[i].Config).c
                    ELSE returnConfig,
                    sysMgmtdHost, configs, i + 1)

\* squashConfigForSysMgmtdHost: the receiver of every overwriteFrom is the new
\* configuration, whose map is not nil, so that none of them panics.
squashConfigForSysMgmtdHost(sysMgmtdHost, config) ==
    squashFrom(overwriteFrom(newBeegfsConfig, config.DefaultConfig).c,
               sysMgmtdHost, config.FileSystemSpecificConfigs, 1)

\* The slices and the map of a configuration as places in memory: those of
\* the configuration held by owner, which is the i-th file system specific
\* configuration of the PluginConfig, its default configuration (0) or the
\* returnConfig of squashConfigForSysMgmtdHost (-1); and no slice (nil).
Refs(owner) ==
    [ ConnInterfaces |-> <<owner, "ConnInterfaces">>,
      ConnNetFilter |-> <<owner, "ConnNetFilter">>,
      ConnTcpOnlyFilter |-> <<owner, "ConnTcpOnlyFilter">>,
      BeegfsClientConf |-> <<owner, "BeegfsClientConf">> ]

DefaultConfigOwner == 0

ReturnConfigOwner == 0 - 1

NilRef == <<0 - 2, "nil">>

overwriteFromRefsAssigning(cRefs, writeFrom, writeFromRefs, made) ==
    [ ConnInterfaces |-> IF Len(writeFrom.ConnInterfaces) # 0
                         THEN writeFromRefs.ConnInterfaces ELSE cRefs.ConnInterfaces,
      ConnNetFilter |-> IF Len(writeFrom.ConnNetFilter) # 0
                        THEN writeFromRefs.ConnNetFilter ELSE cRefs.ConnNetFilter,
      ConnTcpOnlyFilter |-> IF Len(writeFrom.ConnTcpOnlyFilter) # 0
                            THEN writeFromRefs.ConnTcpOnlyFilter
                            ELSE cRefs.ConnTcpOnlyFilter,
      BeegfsClientConf |-> cRefs.BeegfsClientConf ]

\* Where the slices and the map of the receiver of overwriteFrom are after
\* the call: a slice of writeFrom that is not empty is copied into a slice
\* that the call makes (make, copy), the entries of the map of writeFrom are
\* written into the map of the receiver; nothing of writeFrom is kept.
overwriteFromRefs(cRefs, writeFrom, writeFromRefs, made) ==
    [ ConnInterfaces |-> IF Len(writeFrom.ConnInterfaces) # 0
                         THEN Refs(made).ConnInterfaces ELSE cRefs.ConnInterfaces,
      ConnNetFilter |-> IF Len(writeFrom.ConnNetFilter) # 0
                        THEN Refs(made).ConnNetFilter ELSE cRefs.ConnNetFilter,
      ConnTcpOnlyFilter |-> IF Len(writeFrom.ConnTcpOnlyFilter) # 0
                            THEN Refs(made).ConnTcpOnlyFilter ELSE cRefs.ConnTcpOnlyFilter,
      BeegfsClientConf |-> cRefs.BeegfsClientConf ]

\* The loop of squashConfigForSysMgmtdHost, for the places in memory.
RECURSIVE squashRefsFrom(_, _, _, _)
squashRefsFrom(refs, sysMgmtdHost, configs, i) ==
    IF i > Len(configs) THEN refs
    ELSE squashRefsFrom(IF sysMgmtdHost = configs[i].SysMgmtdHost
                        THEN overwriteFromRefs(refs, configs[i].Config, Refs(i),
                                               ReturnConfigOwner)
                        ELSE refs,
                        sysMgmtdHost, configs, i + 1)

\* Where the slices and the map of the configuration that
\* squashConfigForSysMgmtdHost returns are: returnConfig begins as
\* *newBeegfsConfig(), without slices and with a map of its own.
squashRefs(sysMgmtdHost, config) ==
    squashRefsFrom(
        overwriteFromRefs([ ConnInterfaces |-> NilRef, ConnNetFilter |-> NilRef,
                            ConnTcpOnlyFilter |-> NilRef,
                            BeegfsClientConf |-> Refs(ReturnConfigOwner).BeegfsClientConf ],
                          config.DefaultConfig, Refs(DefaultConfigOwner), ReturnConfigOwner),
        sysMgmtdHost, config.FileSystemSpecificConfigs, 1)

\* A configuration after a write through the place ref of one of its fields:
\* an element of the slice is assigned, an entry of the map is set.
writtenThrough(config, owner, field, ref) ==
    IF Refs(owner)[field] # ref THEN config
    ELSE IF field = "BeegfsClientConf"
    THEN [config EXCEPT !.BeegfsClientConf.kv =
             [k \in DOMAIN @ \cup {"written"} |-> "written"]]
    ELSE [config EXCEPT ![field] =
             [i \in DOMAIN @ |-> IF field = "ConnInterfaces" THEN "written" ELSE <<"w">>]]

\* The PluginConfig after such a write
pluginConfigWrittenThrough(config, field, ref) ==
    PluginConfig(writtenThrough(config.DefaultConfig, DefaultConfigOwner, field, ref),
                 [i \in DOMAIN config.FileSystemSpecificConfigs |->
                     [config.FileSystemSpecificConfigs[i] EXCEPT
                         !.Config = writtenThrough(@, i, field, ref)]])

\* strings.Split(s, sep) for a separator of one character
RECURSIVE Split(_, _)
Split(s, sep) ==
    IF Index(s, <<sep>>) = 0 THEN <<s>>
    ELSE <<Take(s, Index(s, <<sep>>) - 1)>> \o Split(Drop(s, Index(s, <<sep>>)), sep)

AllIn(s, chars) == \A i \in DOMAIN s : s[i] \in chars

IsDecimal(s) == s # <<>> /\ AllIn(s, Range(Digits))

\* One field of a dotted IPv4 address: decimal, at most 255, no leading zero.
IPv4FieldOK(f) ==
    /\ IsDecimal(f)
    /\ Len(f) > 1 => f[1] # "0"
    /\ ParseUintValue(f, 10, 0) <= 255

\* An address written with dots
ParseIPv4OK(s) ==
    /\ ":" \notin Range(s)
    /\ Len(Split(s, ".")) = 4
    /\ \A i \in 1..4 : IPv4FieldOK(Split(s, ".")[i])

\* An address written with colons, without a zone and without an IPv4 end:
\* groups of one to four hex digits, eight of them, or fewer with one "::".
ParseIPv6OK(s) ==
    /\ \A i \in DOMAIN Split(s, ":") :
          /\ Len(Split(s, ":")[i]) <= 4
          /\ AllIn(Split(s, ":")[i], Range(HexDigits) \cup {"A", "B", "C", "D", "E", "F"})
    /\ IF Index(s, <<":", ":">>) = 0
       THEN /\ Len(Split(s, ":")) = 8
            /\ \A i \in DOMAIN Split(s, ":") : Split(s, ":")[i] # <<>>
       ELSE /\ Index(Drop(s, Index(s, <<":", ":">>)), <<":", ":">>) = 0
            /\ Cardinality({i \in DOMAIN Split(s, ":") : Split(s, ":")[i] # <<>>}) <= 7
            /\ s[1] = ":" => Index(s, <<":", ":">>) = 1
            /\ s[Len(s)] = ":" => Index(s, <<":", ":">>) = Len(s) - 1

\* net.ParseIP(s) # nil
ParseIPOK(s) == ParseIPv4OK(s) \/ ParseIPv6OK(s)

\* net.ParseCIDR(s) returns no error: an address, the first "/", and a decimal
\* prefix length of at most 32.
ParseCIDROK(s) ==
    /\ Index(s, <<"/">>) # 0
    /\ ParseIPOK(Take(s, Index(s, <<"/">>) - 1))
    /\ IsDecimal(Drop(s, Index(s, <<"/">>)))
    /\ ParseUintValue(Drop(s, Index(s, <<"/">>)), 10, 0) <= 32

LowerAlnum == Range(LowerLetters) \cup Range(Digits)

\* One "label." of domainRegex, without its dot: [_a-z0-9][_a-z0-9-]{0,61}[a-z0-9]
\* or [0-9]+/[0-9]{2}
DomainLabelOK(l) ==
    \/ /\ Len(l) >= 2 /\ Len(l) <= 63
       /\ l[1] \in LowerAlnum \cup {"_"}
       /\ AllIn(SubSeq(l, 2, Len(l) - 1), LowerAlnum \cup {"_", "-"})
       /\ l[Len(l)] \in LowerAlnum
    \/ /\ Len(l) >= 4
       /\ l[Len(l) - 2] = "/"
       /\ IsDecimal(Take(l, Len(l) - 3))
       /\ IsDecimal(Drop(l, Len(l) - 2))

\* The end of domainRegex: nothing, or [a-z]([a-z0-9-]{0,61}[a-z0-9])?
DomainEndOK(t) ==
    \/ t = <<>>
    \/ /\ Len(t) <= 63
       /\ t[1] \in Range(LowerLetters)
       /\ AllIn(SubSeq(t, 2, Len(t) - 1), LowerAlnum \cup {"-"})
       /\ Len(t) > 1 => t[Len(t)] \in LowerAlnum

\* domainRegex.MatchString(s): one or more labels, each followed by a dot,
\* then the end. No class of the expression holds the dot, so that the
\* labels are the parts between the dots.
domainRegexMatch(s) ==
    /\ Len(Split(s, ".")) >= 2
    /\ \A i \in 1..(Len(Split(s, ".")) - 1) : DomainLabelOK(Split(s, ".")[i])
    /\ DomainEndOK(Split(s, ".")[Len(Split(s, "."))])

Localhost == <<"l", "o", "c", "a", "l", "h", "o", "s", "t">>

sysMgmtdHostOK(host) == host = Localhost \/ ParseIPOK(host) \/ domainRegexMatch(host)

filterOK(filter) == ParseCIDROK(filter) \/ ParseIPOK(filter)

\* (*PluginConfig).validateConfig: whether it returns an error
validateConfigErr(plConfig) ==
    \/ \E i \in DOMAIN plConfig.FileSystemSpecificConfigs :
          ~sysMgmtdHostOK(plConfig.FileSystemSpecificConfigs[i].SysMgmtdHost)
    \/ \E config \in {plConfig.DefaultConfig} \cup
                     {plConfig.FileSystemSpecificConfigs[i].Config :
                         i \in DOMAIN plConfig.FileSystemSpecificConfigs} :
          \/ \E j \in DOMAIN config.ConnNetFilter : ~filterOK(config.ConnNetFilter[j])
          \/ \E j \in DOMAIN config.ConnTcpOnlyFilter : ~filterOK(config.ConnTcpOnlyFilter[j])

noEffectBeegfsConfOptions == {"sysMgmtdHost", "connClientPortUDP", "connPortShift"}

\* The options stripConfig warns of and leaves in the configuration.
unsupportedBeegfsConfOptions ==
    {"connInterfacesFile", "connNetFilterFile", "connTcpOnlyFilterFile", "connAuthFile"}

stripBeegfsConfigOfBoth(config) ==
    [config EXCEPT !.BeegfsClientConf.kv =
        [k \in DOMAIN @ \ (noEffectBeegfsConfOptions \cup unsupportedBeegfsConfOptions)
            |-> @[k]]]

\* delete(config.BeegfsClientConf, noEffectOption), for each of the options
stripBeegfsConfig(config) ==
    [config EXCEPT !.BeegfsClientConf.kv =
        [k \in DOMAIN @ \ noEffectBeegfsConfOptions |-> @[k]]]

\* (*PluginConfig).stripConfig
stripConfig(plConfig) ==
    PluginConfig(stripBeegfsConfig(plConfig.DefaultConfig),
                 [i \in DOMAIN plConfig.FileSystemSpecificConfigs |->
                     [plConfig.FileSystemSpecificConfigs[i] EXCEPT
                         !.Config = stripBeegfsConfig(@)]])

\* overwriteFileSystemSpecificConfigs, one configuration of writeFrom: it is
\* written over every configuration of writeTo with its sysMgmtdHost, and
\* appended when there is none.
overwriteWith(writeTo, writeFromConfig) ==
    IF \A i \in DOMAIN writeTo : writeTo[i].SysMgmtdHost # writeFromConfig.SysMgmtdHost
    THEN [panic |-> FALSE, configs |-> Append(writeTo, writeFromConfig)]
    ELSE [ panic |-> \E i \in DOMAIN writeTo :
                        /\ writeTo[i].SysMgmtdHost = writeFromConfig.SysMgmtdHost
                        /\ overwriteFrom(writeTo[i].Config, writeFromConfig.Config).panic,
           configs |-> [i \in DOMAIN writeTo |->
                          IF writeTo[i].SysMgmtdHost = writeFromConfig.SysMgmtdHost
                          THEN [writeTo[i] EXCEPT
                                   !.Config = overwriteFrom(@, writeFromConfig.Config).c]
                          ELSE writeTo[i]] ]

\* overwriteFileSystemSpecificConfigs from the j-th configuration of writeFrom
\* on: the list after the call, and whether an overwriteFrom panicked.
RECURSIVE overwriteFileSystemSpecificConfigsFrom(_, _, _)
overwriteFileSystemSpecificConfigsFrom(r, writeFrom, j) ==
    IF r.panic \/ j > Len(writeFrom) THEN r
    ELSE overwriteFileSystemSpecificConfigsFrom(overwriteWith(r.configs, writeFrom[j]),
                                                writeFrom, j + 1)

overwriteFileSystemSpecificConfigs(writeTo, writeFrom) ==
    overwriteFileSystemSpecificConfigsFrom([panic |-> FALSE, configs |-> writeTo],
                                           writeFrom, 1)

nodeSpecificConfig(nodeList, defaultConfig, fileSystemSpecificConfigs) ==
    [ NodeList |-> nodeList, DefaultConfig |-> defaultConfig,
      FileSystemSpecificConfigs |-> fileSystemSpecificConfigs ]

pluginConfigFromFile(defaultConfig, fileSystemSpecificConfigs, nodeSpecificConfigs) ==
    [ DefaultConfig |-> defaultConfig,
      FileSystemSpecificConfigs |-> fileSystemSpecificConfigs,
      NodeSpecificConfigs |-> nodeSpecificConfigs ]

\* One node specific configuration that applies to the node, written over
\* the plugin configuration.
overwriteFromNodeConfig(r, nodeConfig) ==
    IF overwriteFrom(r.config.DefaultConfig, nodeConfig.DefaultConfig).panic
    THEN [r EXCEPT !.panic = TRUE]
    ELSE [ panic |-> overwriteFileSystemSpecificConfigs(
                         r.config.FileSystemSpecificConfigs,
                         nodeConfig.FileSystemSpecificConfigs).panic,
           config |-> PluginConfig(
                         overwriteFrom(r.config.DefaultConfig, nodeConfig.DefaultConfig).c,
                         overwriteFileSystemSpecificConfigs(
                             r.config.FileSystemSpecificConfigs,
                             nodeConfig.FileSystemSpecificConfigs).configs) ]

\* parseConfigFromFile, "overwrite newPluginConfig with anything found in
\* NodeSpecificConfigs pertaining to this node", from the i-th on.
RECURSIVE overwriteFromNodeConfigs(_, _, _, _)
overwriteFromNodeConfigs(r, nodeConfigs, nodeID, i) ==
    IF r.panic \/ i > Len(nodeConfigs) THEN r
    ELSE overwriteFromNodeConfigs(
            IF nodeID \in Range(nodeConfigs[i].NodeList)
            THEN overwriteFromNodeConfig(r, nodeConfigs[i]) ELSE r,
            nodeConfigs, nodeID, i + 1)

\* The end of parseConfigFromFile: validateConfig, then stripConfig.
validatedAndStripped(r) ==
    IF r.panic THEN [panic |-> TRUE, err |-> FALSE, config |-> r.config]
    ELSE IF validateConfigErr(r.config)
    THEN [panic |-> FALSE, err |-> TRUE, config |-> PluginConfig(zeroBeegfsConfig, <<>>)]
    ELSE [panic |-> FALSE, err |-> FALSE, config |-> stripConfig(r.config)]

\* parseConfigFromFile up to the call of validateConfig: newPluginConfig with
\* the node specific configurations of the node written over it.
nodeScoped(rawConfig, nodeID) ==
    overwriteFromNodeConfigs(
        [ panic |-> FALSE,
          config |-> PluginConfig(rawConfig.DefaultConfig,
                                  rawConfig.FileSystemSpecificConfigs) ],
        rawConfig.NodeSpecificConfigs, nodeID, 1)

\* parseConfigFromFile for a file that unmarshals into rawConfig: whether
\* it panicked, whether it returned an error, and the PluginConfig.
parseConfigFromFile(rawConfig, nodeID) ==
    validatedAndStripped(nodeScoped(rawConfig, nodeID))

connAuthConfig(sysMgmtdHost, connAuth) ==
    [SysMgmtdHost |-> sysMgmtdHost, ConnAuth |-> connAuth]

withConnAuthReplacing(configs, connAuth) ==
    IF \E i \in DOMAIN configs : configs[i].SysMgmtdHost = connAuth.SysMgmtdHost
    THEN [i \in DOMAIN configs |->
            IF configs[i].SysMgmtdHost = connAuth.SysMgmtdHost
            THEN FileSystemSpecificConfig(connAuth.SysMgmtdHost,
                     beegfsConfig(<<>>, <<>>, <<>>, GoMap(TRUE, NoEntries),
                                  connAuth.ConnAuth))
            ELSE configs[i]]
    ELSE Append(configs,
                FileSystemSpecificConfig(connAuth.SysMgmtdHost,
                    beegfsConfig(<<>>, <<>>, <<>>, GoMap(TRUE, NoEntries),
                                 connAuth.ConnAuth)))

\* parseConnAuthFromFile, one connAuthConfig: the connAuth of the first file
\* system specific configuration with its sysMgmtdHost is assigned, and a
\* configuration with nothing but the connAuth is appended when there is none.
withConnAuth(configs, connAuth) ==
    IF \E i \in DOMAIN configs : configs[i].SysMgmtdHost = connAuth.SysMgmtdHost
    THEN [configs EXCEPT
            ![CHOOSE i \in DOMAIN configs :
                /\ configs[i].SysMgmtdHost = connAuth.SysMgmtdHost
                /\ \A j \in 1..(i - 1) : configs[j].SysMgmtdHost # connAuth.SysMgmtdHost]
                .Config.connAuth = connAuth.ConnAuth]
    ELSE Append(configs,
                FileSystemSpecificConfig(connAuth.SysMgmtdHost,
                    beegfsConfig(<<>>, <<>>, <<>>, GoMap(TRUE, NoEntries),
                                 connAuth.ConnAuth)))

\* The loop of parseConnAuthFromFile over connAuthConfigs, from the i-th on.
RECURSIVE withConnAuthFrom(_, _, _)
withConnAuthFrom(configs, connAuthConfigs, i) ==
    IF i > Len(connAuthConfigs) THEN configs
    ELSE withConnAuthFrom(withConnAuth(configs, connAuthConfigs[i]), connAuthConfigs, i + 1)

\* parseConnAuthFromFile for a file that unmarshals into connAuthConfigs:
\* newPluginConfig as it leaves it.
parseConnAuthFromFile(connAuthConfigs, newPluginConfig) ==
    PluginConfig(newPluginConfig.DefaultConfig,
                 withConnAuthFrom(newPluginConfig.FileSystemSpecificConfigs,
                                  connAuthConfigs, 1))

beegfsConfigMarshalJSONInClear(c) ==
    [k \in {"ConnInterfaces", "ConnNetFilter", "ConnTcpOnlyFilter", "BeegfsClientConf"}
           \cup (IF c.connAuth # "" THEN {"ConnAuth"} ELSE {}) |->
        CASE k = "ConnAuth" -> c.connAuth
          [] k = "ConnInterfaces" -> c.ConnInterfaces
          [] k = "ConnNetFilter" -> c.ConnNetFilter
          [] k = "ConnTcpOnlyFilter" -> c.ConnTcpOnlyFilter
          [] k = "BeegfsClientConf" -> c.BeegfsClientConf]

\* (beegfsConfig).MarshalJSON, as the object json.Marshal encodes: the
\* exported fields of the configuration, and ConnAuth, left out when empty
\* (omitempty); the field connAuth is not exported and not encoded.
beegfsConfigMarshalJSON(c) ==
    [k \in {"ConnInterfaces", "ConnNetFilter", "ConnTcpOnlyFilter", "BeegfsClientConf"}
           \cup (IF c.connAuth # "" THEN {"ConnAuth"} ELSE {}) |->
        CASE k = "ConnAuth" -> "******"
          [] k = "ConnInterfaces" -> c.ConnInterfaces
          [] k = "ConnNetFilter" -> c.ConnNetFilter
          [] k = "ConnTcpOnlyFilter" -> c.ConnTcpOnlyFilter
          [] k = "BeegfsClientConf" -> c.BeegfsClientConf]

\* (connAuthConfig).MarshalJSON: the host, and ConnAuth replaced when not empty
connAuthConfigMarshalJSON(c) ==
    [ SysMgmtdHost |-> c.SysMgmtdHost,
      ConnAuth |-> IF c.ConnAuth # "" THEN "******" ELSE "" ]

\* Management hosts and filters of the configurations of the model.
Host1 == <<"1", "0", ".", "0", ".", "0", ".", "1">>

BadHost == <<"n", "o", "t", " ", "a", " ", "h", "o", "s", "t", "!", "!">>

Filter24 == <<"1", "0", ".", "0", ".", "0", ".", "0", "/", "2", "4">>

FilterIP == <<"1", "0", ".", "0", ".", "0", ".", "1">>

BadFilter == <<"9", "9", "9", ".", "9", "9", "9", ".", "9", "9", "9", ".", "9", "9", "9">>

\* ------------------------------------------------------------------------
\* Volumes
\* ------------------------------------------------------------------------

\* controllerServer.csDataDir
csDataDir == <<"/", "d">>

MountDirName == <<"m", "o", "u", "n", "t">>

ClientConfName == <<"c", "l", "i", "e", "n", "t", ".", "c", "o", "n", "f">>

\* newBeegfsVolume: the working state of a volume, derived from the directory
\* chosen by the caller, the management host and the path on the backend.
newBeegfsVolume(mountDirPath, sysMgmtdHost, volDirPathBeegfsRoot, pluginConfig) ==
    [ config |-> squashConfigForSysMgmtdHost(sysMgmtdHost, pluginConfig),
      mountDirPath |-> mountDirPath,
      mountPath |-> pathJoin(mountDirPath, MountDirName),
      clientConfPath |-> pathJoin(mountDirPath, ClientConfName),
      sysMgmtdHost |-> sysMgmtdHost,
      volDirPathBeegfsRoot |-> volDirPathBeegfsRoot,
      volDirPath |-> pathJoin(pathJoin(mountDirPath, MountDirName), volDirPathBeegfsRoot),
      volumeID |-> newBeegfsUrl(sysMgmtdHost, volDirPathBeegfsRoot) ]

\* controllerServer.pluginConfig: the driver runs without a configuration file.
csPluginConfig == PluginConfig(zeroBeegfsConfig, <<>>)

NoVol == newBeegfsVolume(<<>>, <<>>, <<>>, csPluginConfig)

\* newBeegfsVolumeFromID: decodes the volume ID; err when it does not decode.
newBeegfsVolumeFromID(mountDirPath, volumeID, pluginConfig) ==
    LET decoded(u) ==
            [ err |-> u.err,
              vol |-> IF u.err THEN NoVol
                      ELSE newBeegfsVolume(mountDirPath, u.sysMgmtdHost, u.path, pluginConfig) ]
    IN  decoded(parseBeegfsUrl(volumeID))

\* (*controllerServer).newBeegfsVolume
csNewBeegfsVolume(sysMgmtdHost, volDirBasePathBeegfsRoot, volName) ==
    LET inDataDir(volDirPathBeegfsRoot) ==
            newBeegfsVolume(
                pathJoin(csDataDir,
                         sanitizeVolumeID(newBeegfsUrl(sysMgmtdHost, volDirPathBeegfsRoot))),
                sysMgmtdHost, volDirPathBeegfsRoot, csPluginConfig)
    IN  inDataDir(pathJoin(volDirBasePathBeegfsRoot, volName))

\* (*controllerServer).newBeegfsVolumeFromID
csNewBeegfsVolumeFromID(volumeID) ==
    newBeegfsVolumeFromID(pathJoin(csDataDir, sanitizeVolumeID(volumeID)), volumeID,
                          csPluginConfig)

\* ------------------------------------------------------------------------
\* The guard: threadSafeStringLock
\* ------------------------------------------------------------------------

\* obtainLockOnString: whether the string was free, and the strings held
\* afterwards; one atomic check-and-set.
obtainLockOnString(held, s) == [ok |-> s \notin held, held |-> held \cup {s}]

\* releaseLockOnString
releaseLockOnString(held, s) == held \ {s}

\* ------------------------------------------------------------------------
\* The requests the model sends
\* ------------------------------------------------------------------------

\* Number of concurrent workers of the gRPC server.
NumWorkers == 2

Workers == 1..NumWorkers

HostH == <<"h">>

\* beegfs://h/a_/b and beegfs://h/a/_b
VolumeIDA == SchemePrefix \o <<"h", "/", "a", "_", "/", "b">>
VolumeIDB == SchemePrefix \o <<"h", "/", "a", "/", "_", "b">>

\* nfs://h/a, a volume ID of another scheme
VolumeIDForeign == <<"n", "f", "s", ":", "/", "/", "h", "/", "a">>

GoodCaps == <<"MOUNT_MULTI_NODE_MULTI_WRITER">>
BadCaps == <<"MOUNT_MULTI_NODE_MULTI_WRITER", "BLOCK_SINGLE_NODE_WRITER">>

Param(key, value) == [k |-> key, v |-> value]

ParamsA == {Param(sysMgmtdHostKey, HostH), Param(volDirBasePathKey, <<"a", "_">>)}

ParamsB == {Param(sysMgmtdHostKey, HostH), Param(volDirBasePathKey, <<"/", "a">>)}

CreateRequest(name, caps, params) ==
    [op |-> "CreateVolume", name |-> name, caps |-> caps, params |-> params, volumeId |-> <<>>]

DeleteRequest(volumeId) ==
    [op |-> "DeleteVolume", name |-> <<>>, caps |-> <<>>, params |-> {}, volumeId |-> volumeId]

ValidateRequest(volumeId, caps) ==
    [op |-> "ValidateVolumeCapabilities", name |-> <<>>, caps |-> caps, params |-> {},
     volumeId |-> volumeId]

\* CreateVolume requests that pass the argument checks: volume b under a_
\* (the base path written without its leading slash), the same with the
\* setgid bit requested, volume _b under /a with the sticky bit, an owner and
\* a chunk size requested, and volume ../b under /a_/c.
CreateVolumeA == CreateRequest(<<"b">>, GoodCaps, ParamsA)

CreateVolumeASetgid ==
    CreateRequest(<<"b">>, GoodCaps,
                  ParamsA \cup {Param(permissionsModeKey, <<"2", "7", "5", "5">>)})

CreateVolumeB ==
    CreateRequest(<<"_", "b">>, GoodCaps,
                  ParamsB \cup {Param(permissionsModeKey, <<"1", "7", "7", "7">>),
                                Param(permissionsUIDKey, <<"1", "0", "0", "0">>),
                                Param(stripePatternChunkSizeKey, <<"1", "m">>)})

CreateVolumeUp ==
    CreateRequest(<<".", ".", "/", "b">>, GoodCaps,
                  {Param(sysMgmtdHostKey, HostH),
                   Param(volDirBasePathKey, <<"/", "a", "_", "/", "c">>)})

ValidCreateRequests == {CreateVolumeA, CreateVolumeASetgid, CreateVolumeB, CreateVolumeUp}

\* CreateVolume requests with one defect each.
InvalidCreateRequests ==
    { CreateRequest(<<>>, GoodCaps, ParamsA),
      CreateRequest(<<"b">>, <<>>, ParamsA),
      CreateRequest(<<"b">>, BadCaps, ParamsA),
      CreateRequest(<<"b">>, GoodCaps, {}),
      CreateRequest(<<"b">>, GoodCaps, {Param(volDirBasePathKey, <<"a", "_">>)}),
      CreateRequest(<<"b">>, GoodCaps, {Param(sysMgmtdHostKey, HostH)}),
      CreateRequest(<<"b">>, GoodCaps, ParamsA \cup {Param(permissionsModeKey, <<"0", "7", "8">>)}),
      CreateRequest(<<"b">>, GoodCaps,
                    ParamsA \cup {Param(permissionsModeKey, <<"1", "7", "7", "7", "7">>)}),
      CreateRequest(<<"b">>, GoodCaps, ParamsA \cup {Param(permissionsUIDKey, <<"-", "1">>)}),
      CreateRequest(<<"b">>, GoodCaps,
                    ParamsA \cup {Param(permissionsGIDKey,
                                        <<"4", "2", "9", "4", "9", "6", "7", "2", "9", "6">>)}),
      CreateRequest(<<"b">>, GoodCaps, ParamsA \cup {Param(<<"permissions", "umask">>, <<"2">>)}),
      CreateRequest(<<"b">>, GoodCaps,
                    ParamsA \cup {Param(<<"stripePattern", "raidLevel">>, <<"0">>)}) }

DeleteRequests ==
    {DeleteRequest(id) : id \in {VolumeIDA, VolumeIDB, VolumeIDForeign, <<>>}}

ValidateRequests ==
    { ValidateRequest(VolumeIDA, GoodCaps),
      ValidateRequest(VolumeIDA, BadCaps),
      ValidateRequest(VolumeIDA, <<>>),
      ValidateRequest(VolumeIDForeign, GoodCaps),
      ValidateRequest(<<>>, GoodCaps) }

Requests == ValidCreateRequests \cup InvalidCreateRequests \cup DeleteRequests \cup ValidateRequests

NoReq == [op |-> "none", name |-> <<>>, caps |-> <<>>, params |-> {}, volumeId |-> <<>>]

\* ------------------------------------------------------------------------
\* State
\* ------------------------------------------------------------------------

VARIABLES
    volumeIDsInFlight,  \* controllerServer.volumeIDsInFlight: the volume IDs held
    pc,                 \* where each worker is in its handler
    req,                \* the request a worker is serving
    vol,                \* the beegfsVolume the handler constructed
    resp,               \* the response of the worker's call, once decided
    dirs,               \* local disk: the directories that exist
    files,              \* local disk: the client files, each with the host written in it
    mounts,             \* the mount table: device, path, options, mounted backend
    backend,            \* the directories that exist on the backends
    minted,             \* the volume IDs successful CreateVolume calls returned
    call                \* a call of one of the package's functions by itself: its
                        \* arguments, the state it was called in and its result

vars == <<volumeIDsInFlight, pc, req, vol, resp, dirs, files, mounts, backend, minted, call>>

env == <<dirs, files, mounts, backend>>

NoResp == [op |-> "none", code |-> "none", volumeId |-> <<>>, confirmed |-> FALSE,
           message |-> FALSE, cleanupFailed |-> FALSE]

Response(op, code) == [NoResp EXCEPT !.op = op, !.code = code]

NoCall == [op |-> "none"]

Init ==
    /\ volumeIDsInFlight = {}
    /\ pc = [w \in Workers |-> "idle"]
    /\ req = [w \in Workers |-> NoReq]
    /\ vol = [w \in Workers |-> NoVol]
    /\ resp = [w \in Workers |-> NoResp]
    /\ dirs = {}
    /\ files = {}
    /\ mounts = {}
    /\ backend = {}
    /\ minted = {}
    /\ call = NoCall

\* ------------------------------------------------------------------------
\* Local disk, mount table and backend
\* ------------------------------------------------------------------------

\* path is root or lies below it
IsUnder(path, root) == path = root \/ HasPrefix(path, root \o <<"/">>)

\* The part of path below root, as a rooted path.
Below(path, root) == IF path = root THEN <<"/">> ELSE Drop(path, Len(root))

BeegfsDevice == "beegfs_nodev"

\* mounter.Mount("beegfs_nodev", mountPath, "beegfs", {"rw", "relatime", "cfgFile=" + clientConfPath})
\* connects to the management host written in the client file. A mount on a
\* path that is mounted already is stacked on it: layer counts the mounts on
\* the path, this one included.
MountEntry(mountPath, clientConfPath, host, layer) ==
    [device |-> BeegfsDevice, path |-> mountPath,
     opts |-> {<<"r", "w">>, <<"c", "f", "g", "F", "i", "l", "e", "=">> \o clientConfPath},
     host |-> host, layer |-> layer]

\* The mounts on path
MountsAt(e, path) == {m \in e.mounts : m.path = path}

\* mounter.IsLikelyNotMountPoint, negated
IsMountPoint(path) == \E e \in mounts : e.path = path

\* The host written in the client file at path; <<>> when there is no file.
HasFile(path) == \E f \in files : f.path = path

HostIn(path) == (CHOOSE f \in files : f.path = path).host

\* The local disk, mount table and backends as one value, for the operations
\* below: each takes the state before and returns the state after.
Env == [dirs |-> dirs, files |-> files, mounts |-> mounts, backend |-> backend]

SetEnv(e) ==
    /\ dirs' = e.dirs
    /\ files' = e.files
    /\ mounts' = e.mounts
    /\ backend' = e.backend

\* The mounts at or below root, and the mounts root lies inside of.
MountedBelow(e, root) == {m \in e.mounts : IsUnder(m.path, root)}

MountedAbove(e, root) == {m \in e.mounts : IsUnder(root, m.path) /\ root # m.path}

\* fs.RemoveAll(root). Inside a mounted backend it removes the backend
\* directories at and below root. At or above a mount point it removes
\* everything the mounted backend holds and then fails on the mount point
\* itself (busy), which stays with the directories above it. Otherwise it
\* removes root and what is below it from the local disk.
RemoveAll(e, root, removeOK) ==
    LET above == MountedAbove(e, root)
        below == MountedBelow(e, root)
        busy == {d \in e.dirs : \E m \in below : IsUnder(m.path, d)}
    IN  IF ~removeOK THEN [err |-> TRUE, env |-> e]
        ELSE IF above # {}
        THEN [ err |-> FALSE,
               env |-> [e EXCEPT !.backend =
                   {b \in @ : ~\E m \in above :
                                   b.host = m.host /\ IsUnder(b.path, Below(root, m.path))}] ]
        ELSE [ err |-> below # {},
               env |-> [e EXCEPT
                   !.dirs = {d \in @ : ~IsUnder(d, root) \/ d \in busy},
                   !.files = {f \in @ : ~IsUnder(f.path, root)},
                   !.backend = {b \in @ : ~\E m \in below : b.host = m.host}] ]

\* cleanUpIfNecessary
cleanUpIfNecessary(e, v, rmDir, removeOK) ==
    IF rmDir = FALSE
    THEN IF v.mountDirPath \notin e.dirs \/ ~removeOK THEN [err |-> TRUE, env |-> e]
         ELSE LET r == RemoveAll(e, v.mountDirPath, TRUE)
              IN  [err |-> r.err, env |-> [r.env EXCEPT !.dirs = @ \cup {v.mountDirPath}]]
    ELSE RemoveAll(e, v.mountDirPath, removeOK)

\* CleanupMountPoint that insists on a mount: it fails on a path that does not
\* exist or is not a mount point.
CleanupMountPointStrict(e, mountPath, unmountOK) ==
    IF MountsAt(e, mountPath) = {} \/ ~unmountOK THEN [err |-> TRUE, env |-> e]
    ELSE [err |-> FALSE,
          env |-> [e EXCEPT !.mounts = {m \in e.mounts : m.path # mountPath},
                            !.dirs = e.dirs \ {mountPath}]]

\* mount.CleanupMountPoint(mountPath, mounter, false): nothing to do when the
\* path does not exist; otherwise unmounts it once if it is a mount point,
\* fails if it is a mount point still, and removes the (then empty) directory.
CleanupMountPoint(e, mountPath, unmountOK) ==
    LET top == {m \in MountsAt(e, mountPath) : m.layer = Cardinality(MountsAt(e, mountPath))}
    IN  IF mountPath \notin e.dirs THEN [err |-> FALSE, env |-> e]
        ELSE IF MountsAt(e, mountPath) = {}
        THEN [err |-> FALSE, env |-> [e EXCEPT !.dirs = e.dirs \ {mountPath}]]
        ELSE IF ~unmountOK THEN [err |-> TRUE, env |-> e]
        ELSE IF MountsAt(e, mountPath) # top
        THEN [err |-> TRUE, env |-> [e EXCEPT !.mounts = e.mounts \ top]]
        ELSE [err |-> FALSE,
              env |-> [e EXCEPT !.mounts = e.mounts \ top, !.dirs = e.dirs \ {mountPath}]]

\* The bind mount test of unmountAndCleanUpIfNecessary: an entry of the BeeGFS
\* device whose path does not contain the mount path and one of whose options
\* contains the client file path.
bindMountedElsewhere(e, v) ==
    \E m \in e.mounts :
        /\ m.device = BeegfsDevice
        /\ ~Contains(m.path, v.mountPath)
        /\ \E opt \in m.opts : Contains(opt, v.clientConfPath)

\* unmountAndCleanUpIfNecessary without the bind mount test: it unmounts and
\* removes whatever else the mount table holds.
unmountAndCleanUpRegardless(e, v, rmDir, listOK, unmountOK, removeOK) ==
    IF ~listOK THEN [err |-> TRUE, env |-> e]
    ELSE LET u == CleanupMountPoint(e, v.mountPath, unmountOK)
         IN  IF u.err THEN u
             ELSE cleanUpIfNecessary(u.env, v, rmDir, removeOK)

\* unmountAndCleanUpIfNecessary. listOK, unmountOK and removeOK are the
\* outcomes of mounter.List, of the unmount and of the removal.
unmountAndCleanUpIfNecessary(e, v, rmDir, listOK, unmountOK, removeOK) ==
    IF ~listOK THEN [err |-> TRUE, env |-> e]
    ELSE IF bindMountedElsewhere(e, v) THEN [err |-> TRUE, env |-> e]
    ELSE LET u == CleanupMountPoint(e, v.mountPath, unmountOK)
         IN  IF u.err THEN u
             ELSE cleanUpIfNecessary(u.env, v, rmDir, removeOK)

\* mountIfNecessary without the test for a mount point: it mounts on a path
\* that is mounted already.
mountRegardless(e, v, statOK, mkdirOK, mountOK) ==
    LET exists == v.mountPath \in e.dirs
        canMkdir == mkdirOK /\ v.mountDirPath \in e.dirs
        made == IF exists THEN e ELSE [e EXCEPT !.dirs = @ \cup {v.mountPath}]
        conf == {f \in e.files : f.path = v.clientConfPath}
    IN  IF exists /\ ~statOK THEN [err |-> TRUE, env |-> e]
        ELSE IF ~exists /\ ~canMkdir THEN [err |-> TRUE, env |-> e]
        ELSE IF mountOK /\ conf # {}
        THEN [err |-> FALSE,
              env |-> [made EXCEPT !.mounts = @ \cup
                          {MountEntry(v.mountPath, v.clientConfPath,
                                      (CHOOSE f \in conf : TRUE).host,
                                      Cardinality(MountsAt(e, v.mountPath)) + 1)}]]
        ELSE [err |-> TRUE, env |-> made]

\* mountIfNecessary. statOK, mkdirOK and mountOK are the outcomes of
\* IsLikelyNotMountPoint (other than "does not exist"), of os.Mkdir and of
\* mounter.Mount; the mount helper reads the client file.
mountIfNecessary(e, v, statOK, mkdirOK, mountOK) ==
    LET exists == v.mountPath \in e.dirs
        canMkdir == mkdirOK /\ v.mountDirPath \in e.dirs
        made == IF exists THEN e ELSE [e EXCEPT !.dirs = @ \cup {v.mountPath}]
        conf == {f \in e.files : f.path = v.clientConfPath}
    IN  IF exists /\ ~statOK THEN [err |-> TRUE, env |-> e]
        ELSE IF ~exists /\ ~canMkdir THEN [err |-> TRUE, env |-> e]
        ELSE IF exists /\ \E m \in e.mounts : m.path = v.mountPath
        THEN [err |-> FALSE, env |-> e]
        ELSE IF mountOK /\ conf # {}
        THEN [err |-> FALSE,
              env |-> [made EXCEPT !.mounts = @ \cup
                          {MountEntry(v.mountPath, v.clientConfPath,
                                      (CHOOSE f \in conf : TRUE).host,
                                      Cardinality(MountsAt(e, v.mountPath)) + 1)}]]
        ELSE [err |-> TRUE, env |-> made]

\* The keys of the template beegfs-client.conf file at
\* controllerServer.clientConfTemplatePath.
clientConfTemplate ==
    {"sysMgmtdHost", "connClientPortUDP", "connInterfacesFile", "connNetFilterFile",
     "connTcpOnlyFilterFile", "connMaxInternodeNum"}

connInterfacesFileName == <<"c", "o", "n", "n", "I", "n", "t", "e", "r", "f", "a", "c", "e", "s", "F", "i", "l", "e">>

connNetFilterFileName == <<"c", "o", "n", "n", "N", "e", "t", "F", "i", "l", "t", "e", "r", "F", "i", "l", "e">>

connTcpOnlyFilterFileName == <<"c", "o", "n", "n", "T", "c", "p", "O", "n", "l", "y", "F", "i", "l", "t", "e", "r", "F", "i", "l", "e">>

\* An .ini file being edited: its keys, and whether an edit was refused.
IniFile(keys) == [keys |-> keys, err |-> FALSE]

\* Setting a value the way the ini library does on its own: a key that is not
\* in the file is added to it.
setConfigValue(iniFile, key) ==
    IF iniFile.err THEN iniFile ELSE [iniFile EXCEPT !.keys = @ \cup {key}]

\* setConfigValueIfKeyExists, applied unless an earlier edit was refused (the
\* function returns at the first error).
setConfigValueIfKeyExists(iniFile, key) ==
    IF iniFile.err THEN iniFile
    ELSE IF key \in iniFile.keys THEN iniFile
    ELSE [iniFile EXCEPT !.err = TRUE]

\* for k, v := range vol.config.BeegfsClientConf
RECURSIVE setConfigValues(_, _)
setConfigValues(iniFile, keys) ==
    IF keys = {} THEN iniFile
    ELSE LET k == CHOOSE k \in keys : TRUE
         IN  setConfigValues(setConfigValueIfKeyExists(iniFile, k), keys \ {k})

\* A file written at path: a client file names the management host and has
\* keys, a list file has neither.
File(path, host, keys) == [path |-> path, host |-> host, keys |-> keys]

WriteFile(e, f) == [e EXCEPT !.files = {g \in @ : g.path # f.path} \cup {f}]

\* One of the three list files: when the list is not empty, the key of the
\* file is set in the .ini file and the file is written.
writeListFile(r, list, key, filePath) ==
    IF r.ini.err \/ Len(list) = 0 THEN r
    ELSE IF setConfigValueIfKeyExists(r.ini, key).err
    THEN [r EXCEPT !.ini = setConfigValueIfKeyExists(r.ini, key)]
    ELSE [ini |-> setConfigValueIfKeyExists(r.ini, key),
          env |-> WriteFile(r.env, File(filePath, <<>>, {}))]

\* fs.Create(vol.clientConfPath) and clientConfINI.WriteTo, reached when no
\* edit was refused.
writeClientConf(r, v) ==
    IF r.ini.err THEN [err |-> TRUE, env |-> r.env]
    ELSE [err |-> FALSE,
          env |-> WriteFile(r.env, File(v.clientConfPath, v.sysMgmtdHost, r.ini.keys))]

\* writeClientFiles, with the keys of the template file. writeOK is the
\* outcome of the port selection, of reading the template and of the writes;
\* the writes need the directory.
writeClientFiles(e, v, template, writeOK) ==
    IF ~writeOK \/ v.mountDirPath \notin e.dirs THEN [err |-> TRUE, env |-> e]
    ELSE writeClientConf(
            writeListFile(
                writeListFile(
                    writeListFile(
                        [ini |-> setConfigValues(
                                     setConfigValueIfKeyExists(
                                         setConfigValueIfKeyExists(IniFile(template),
                                                                   "sysMgmtdHost"),
                                         "connClientPortUDP"),
                                     DOMAIN v.config.BeegfsClientConf.kv),
                         env |-> e],
                        v.config.ConnInterfaces, "connInterfacesFile",
                        pathJoin(v.mountDirPath, connInterfacesFileName)),
                    v.config.ConnNetFilter, "connNetFilterFile",
                    pathJoin(v.mountDirPath, connNetFilterFileName)),
                v.config.ConnTcpOnlyFilter, "connTcpOnlyFilterFile",
                pathJoin(v.mountDirPath, connTcpOnlyFilterFileName)),
            v)

\* ------------------------------------------------------------------------
\* The handlers
\* ------------------------------------------------------------------------

SetPc(w, p) == pc' = [pc EXCEPT ![w] = p]

Decide(w, r) == resp' = [resp EXCEPT ![w] = r]

\* A return before the lock was asked for or obtained: no deferred call runs.
\* The worker holds the request and the response until the response is sent.
ReturnEarly(w, r, code) ==
    /\ SetPc(w, "return")
    /\ req' = [req EXCEPT ![w] = r]
    /\ Decide(w, Response(r.op, code))
    /\ UNCHANGED <<volumeIDsInFlight, vol, env, minted, call>>

\* The response of an early return is sent; the worker is free again.
SendResponse(w) ==
    /\ pc[w] = "return"
    /\ SetPc(w, "idle")
    /\ req' = [req EXCEPT ![w] = NoReq]
    /\ resp' = [resp EXCEPT ![w] = NoResp]
    /\ UNCHANGED <<volumeIDsInFlight, vol, env, minted, call>>

\* The deferred calls in the other order: the volume ID is given back when
\* the primary operation ends, before the clean up.
FinishReleasing(w, r) ==
    /\ SetPc(w, "cleanup")
    /\ Decide(w, r)
    /\ volumeIDsInFlight' = releaseLockOnString(volumeIDsInFlight, vol[w].volumeID)
    /\ UNCHANGED <<req, vol, minted, call>>

\* The primary operation ended: the deferred calls run next.
Finish(w, r) ==
    /\ SetPc(w, "cleanup")
    /\ Decide(w, r)
    /\ UNCHANGED <<volumeIDsInFlight, req, vol, minted, call>>

Fail(w, code) == Finish(w, Response(req[w].op, code))

Continue(w, p) ==
    /\ SetPc(w, p)
    /\ UNCHANGED <<volumeIDsInFlight, req, vol, resp, minted, call>>

\* acquire with the result of obtainLockOnString ignored: the handler goes on
\* whether or not another call holds the volume ID.
acquireUnchecked(w, r, v) ==
    /\ volumeIDsInFlight' = obtainLockOnString(volumeIDsInFlight, v.volumeID).held
    /\ req' = [req EXCEPT ![w] = r]
    /\ vol' = [vol EXCEPT ![w] = v]
    /\ SetPc(w, "mkdir")
    /\ UNCHANGED <<resp, env, minted, call>>

\* acquire with a check that does not set: the volume ID is tested and the
\* handler goes on, but the volume ID is not recorded as held.
acquireWithoutMark(w, r, v) ==
    IF ~obtainLockOnString(volumeIDsInFlight, v.volumeID).ok THEN ReturnEarly(w, r, "Aborted")
    ELSE /\ req' = [req EXCEPT ![w] = r]
         /\ vol' = [vol EXCEPT ![w] = v]
         /\ SetPc(w, "mkdir")
         /\ UNCHANGED <<volumeIDsInFlight, resp, env, minted, call>>

\* acquire with the release deferred before the result is tested: the call
\* that is answered Aborted releases the volume ID on its way out.
acquireReleasingOnAbort(w, r, v) ==
    LET l == obtainLockOnString(volumeIDsInFlight, v.volumeID) IN
    IF ~l.ok
    THEN /\ SetPc(w, "return")
         /\ req' = [req EXCEPT ![w] = r]
         /\ Decide(w, Response(r.op, "Aborted"))
         /\ volumeIDsInFlight' = releaseLockOnString(volumeIDsInFlight, v.volumeID)
         /\ UNCHANGED <<vol, env, minted, call>>
    ELSE /\ volumeIDsInFlight' = l.held
         /\ req' = [req EXCEPT ![w] = r]
         /\ vol' = [vol EXCEPT ![w] = v]
         /\ SetPc(w, "mkdir")
         /\ UNCHANGED <<resp, env, minted, call>>

\* "ensure no other request is currently referencing it": the handler goes on
\* with the volume only if it obtained the lock on its volume ID, and returns
\* Aborted otherwise.
acquire(w, r, v) ==
    LET l == obtainLockOnString(volumeIDsInFlight, v.volumeID) IN
    IF ~l.ok THEN ReturnEarly(w, r, "Aborted")
    ELSE /\ volumeIDsInFlight' = l.held
         /\ req' = [req EXCEPT ![w] = r]
         /\ vol' = [vol EXCEPT ![w] = v]
         /\ SetPc(w, "mkdir")
         /\ UNCHANGED <<resp, env, minted, call>>

\* The argument checks without the check of the permissions parameters.
createVolumeArgsErrNoPermissions(r) ==
    \/ Len(r.name) = 0
    \/ Len(r.caps) = 0
    \/ ~isValidVolumeCapabilities(r.caps)
    \/ r.params = {}
    \/ ~HasKey(r.params, sysMgmtdHostKey)
    \/ ~HasKey(r.params, volDirBasePathKey)
    \/ stripePatternParamsErr(r.params)

\* CreateVolume, "Check arguments": whether one of the checks fails.
createVolumeArgsErr(r) ==
    \/ Len(r.name) = 0
    \/ Len(r.caps) = 0
    \/ ~isValidVolumeCapabilities(r.caps)
    \/ r.params = {}
    \/ ~HasKey(r.params, sysMgmtdHostKey)
    \/ ~HasKey(r.params, volDirBasePathKey)
    \/ permissionsParamsErr(r.params)
    \/ stripePatternParamsErr(r.params)

\* The volume CreateVolume constructs from a request that passed the checks.
createVolumeVol(r) ==
    csNewBeegfsVolume(Get(r.params, sysMgmtdHostKey),
                      pathClean(pathJoin(<<"/">>, Get(r.params, volDirBasePathKey))),
                      r.name)

\* The checks and the volume of every CreateVolume request of the model, and
\* the decoding of every volume ID: tables of the operators above.
createVolumeArgsErrOf ==
    [r \in {q \in Requests : q.op = "CreateVolume"} |-> createVolumeArgsErr(r)]

createVolumeVolOf ==
    [r \in {q \in Requests : q.op = "CreateVolume" /\ ~createVolumeArgsErr(q)} |->
        createVolumeVol(r)]

volumeFromIDOf == [id \in {q.volumeId : q \in Requests} |-> csNewBeegfsVolumeFromID(id)]

\* CreateVolume, called with request r on a free worker, up to the lock.
CreateVolumeBegin(w, r) ==
    /\ pc[w] = "idle"
    /\ r.op = "CreateVolume"
    /\ IF createVolumeArgsErrOf[r] THEN ReturnEarly(w, r, "InvalidArgument")
       ELSE acquire(w, r, createVolumeVolOf[r])

\* The status DeleteVolume and ValidateVolumeCapabilities return for a volume
\* ID that does not decode.
undecodableVolumeIDCode == "Internal"

\* DeleteVolume, called with request r on a free worker, up to the lock.
DeleteVolumeBegin(w, r) ==
    /\ pc[w] = "idle"
    /\ r.op = "DeleteVolume"
    /\ LET v == volumeFromIDOf[r.volumeId] IN
       IF Len(r.volumeId) = 0 THEN ReturnEarly(w, r, "InvalidArgument")
       ELSE IF v.err THEN ReturnEarly(w, r, undecodableVolumeIDCode)
       ELSE acquire(w, r, v.vol)

\* ValidateVolumeCapabilities, called with request r on a free worker, up to
\* the lock.
ValidateVolumeCapabilitiesBegin(w, r) ==
    /\ pc[w] = "idle"
    /\ r.op = "ValidateVolumeCapabilities"
    /\ LET v == volumeFromIDOf[r.volumeId] IN
       IF Len(r.volumeId) = 0 THEN ReturnEarly(w, r, "InvalidArgument")
       ELSE IF Len(r.caps) = 0 THEN ReturnEarly(w, r, "InvalidArgument")
       ELSE IF v.err THEN ReturnEarly(w, r, undecodableVolumeIDCode)
       ELSE acquire(w, r, v.vol)

\* fs.MkdirAll(vol.mountDirPath, 0750), in the three handlers.
MkdirAll(w) ==
    /\ pc[w] = "mkdir"
    /\ \E ok \in BOOLEAN :
          IF ok
          THEN /\ dirs' = dirs \cup {vol[w].mountDirPath}
               /\ UNCHANGED <<files, mounts, backend>>
               /\ Continue(w, "write")
          ELSE UNCHANGED env /\ Fail(w, "Internal")

\* The handlers going on after writeClientFiles whether or not it returned
\* an error.
WriteClientFilesIgnoringError(w) ==
    /\ pc[w] = "write"
    /\ \E writeOK \in BOOLEAN :
          /\ SetEnv(writeClientFiles(Env, vol[w], clientConfTemplate, writeOK).env)
          /\ Continue(w, CASE req[w].op = "CreateVolume" -> "createDir"
                           [] req[w].op = "DeleteVolume" -> "mount"
                           [] OTHER -> "stat")

\* writeClientFiles(ctx, vol, cs.clientConfTemplatePath), in the three handlers.
WriteClientFiles(w) ==
    /\ pc[w] = "write"
    /\ \E writeOK \in BOOLEAN :
          LET r == writeClientFiles(Env, vol[w], clientConfTemplate, writeOK) IN
          /\ SetEnv(r.env)
          /\ IF r.err THEN Fail(w, "Internal")
             ELSE Continue(w, CASE req[w].op = "CreateVolume" -> "createDir"
                                [] req[w].op = "DeleteVolume" -> "mount"
                                [] OTHER -> "stat")

\* cs.ctlExec.createDirectoryForVolume: beegfs-ctl, run with the client file,
\* creates the directory on the backend the file names.
CreateDirectoryForVolume(w) ==
    /\ pc[w] = "createDir"
    /\ \E ok \in BOOLEAN :
          IF ok /\ HasFile(vol[w].clientConfPath)
          THEN /\ backend' = backend \cup {[host |-> HostIn(vol[w].clientConfPath),
                                            path |-> vol[w].volDirPathBeegfsRoot]}
               /\ UNCHANGED <<dirs, files, mounts>>
               /\ Continue(w, "setPattern")
          ELSE UNCHANGED env /\ Fail(w, "Internal")

CreateVolumeResponse(w) == [Response("CreateVolume", "OK") EXCEPT !.volumeId = vol[w].volumeID]

\* CreateVolume mounting whatever the access mode is.
SetPatternForVolumeThenMount(w) ==
    /\ pc[w] = "setPattern"
    /\ UNCHANGED env
    /\ \E ok \in BOOLEAN :
          IF ok /\ HasFile(vol[w].clientConfPath)
          THEN Continue(w, "mount")
          ELSE Fail(w, "Internal")

\* cs.ctlExec.setPatternForVolume, and the choice to mount or to answer.
SetPatternForVolume(w) ==
    /\ pc[w] = "setPattern"
    /\ UNCHANGED env
    /\ \E ok \in BOOLEAN :
          IF ok /\ HasFile(vol[w].clientConfPath)
          THEN IF hasSpecialPermissions(permissionsMode(req[w].params))
               THEN Continue(w, "mount")
               ELSE Finish(w, CreateVolumeResponse(w))
          ELSE Fail(w, "Internal")

\* mountIfNecessary(ctx, vol, cs.mounter), in CreateVolume and DeleteVolume.
MountIfNecessary(w) ==
    /\ pc[w] = "mount"
    /\ \E statOK, mkdirOK, mountOK \in BOOLEAN :
          LET r == mountIfNecessary(Env, vol[w], statOK, mkdirOK, mountOK) IN
          /\ SetEnv(r.env)
          /\ IF r.err THEN Fail(w, "Internal")
             ELSE Continue(w, IF req[w].op = "CreateVolume" THEN "chmod" ELSE "removeAll")

\* os.Chmod(vol.volDirPath, ...): the path is the volume's directory only
\* through the mount.
Chmod(w) ==
    /\ pc[w] = "chmod"
    /\ UNCHANGED env
    /\ \E ok \in BOOLEAN :
          IF /\ ok
             /\ \E m \in mounts : /\ m.path = vol[w].mountPath
                                  /\ [host |-> m.host, path |-> vol[w].volDirPathBeegfsRoot]
                                         \in backend
          THEN Finish(w, CreateVolumeResponse(w))
          ELSE Fail(w, "Internal")

\* DeleteVolume with the error of the removal dropped: it answers OK whether
\* or not the directory was removed.
DeleteVolumeRemoveAllIgnoringError(w) ==
    /\ pc[w] = "removeAll"
    /\ \E removeOK \in BOOLEAN :
          /\ SetEnv(RemoveAll(Env, vol[w].volDirPath, removeOK).env)
          /\ Fail(w, "OK")

\* DeleteVolume answering NotFound for a volume whose directory is not on
\* the backend.
DeleteVolumeRemoveAllNotFound(w) ==
    /\ pc[w] = "removeAll"
    /\ \E removeOK \in BOOLEAN :
          LET r == RemoveAll(Env, vol[w].volDirPath, removeOK) IN
          /\ SetEnv(r.env)
          /\ IF r.err THEN Fail(w, "Internal")
             ELSE IF [host |-> vol[w].sysMgmtdHost, path |-> vol[w].volDirPathBeegfsRoot]
                       \notin backend
             THEN Fail(w, "NotFound")
             ELSE Fail(w, "OK")

\* fs.RemoveAll(vol.volDirPath) of DeleteVolume.
DeleteVolumeRemoveAll(w) ==
    /\ pc[w] = "removeAll"
    /\ \E removeOK \in BOOLEAN :
          LET r == RemoveAll(Env, vol[w].volDirPath, removeOK) IN
          /\ SetEnv(r.env)
          /\ IF r.err THEN Fail(w, "Internal") ELSE Fail(w, "OK")

\* ValidateVolumeCapabilities answering capabilities it does not support the
\* way CreateVolume does, with an InvalidArgument error.
StatDirectoryForVolumeRefusing(w) ==
    /\ pc[w] = "stat"
    /\ UNCHANGED env
    /\ \E ok \in BOOLEAN :
          IF ~ok \/ ~HasFile(vol[w].clientConfPath) THEN Fail(w, "Internal")
          ELSE IF [host |-> HostIn(vol[w].clientConfPath), path |-> vol[w].volDirPathBeegfsRoot]
                    \notin backend
          THEN Fail(w, "NotFound")
          ELSE IF isValidVolumeCapabilities(req[w].caps)
          THEN Finish(w, [Response(req[w].op, "OK") EXCEPT !.confirmed = TRUE])
          ELSE Fail(w, "InvalidArgument")

\* cs.ctlExec.statDirectoryForVolume and the answer of
\* ValidateVolumeCapabilities.
StatDirectoryForVolume(w) ==
    /\ pc[w] = "stat"
    /\ UNCHANGED env
    /\ \E ok \in BOOLEAN :
          IF ~ok \/ ~HasFile(vol[w].clientConfPath) THEN Fail(w, "Internal")
          ELSE IF [host |-> HostIn(vol[w].clientConfPath), path |-> vol[w].volDirPathBeegfsRoot]
                    \notin backend
          THEN Fail(w, "NotFound")
          ELSE IF isValidVolumeCapabilities(req[w].caps)
          THEN Finish(w, [Response(req[w].op, "OK") EXCEPT !.confirmed = TRUE])
          ELSE Finish(w, [Response(req[w].op, "OK") EXCEPT !.message = TRUE])

\* The deferred clean up called with rmDir false: the working directory is
\* emptied and kept.
deferredCleanUpKeepDir(e, op, v, listOK, unmountOK, removeOK) ==
    IF op = "ValidateVolumeCapabilities" THEN cleanUpIfNecessary(e, v, FALSE, removeOK)
    ELSE unmountAndCleanUpIfNecessary(e, v, FALSE, listOK, unmountOK, removeOK)

\* The deferred clean up of ValidateVolumeCapabilities being that of the
\* other two handlers: it unmounts.
deferredCleanUpUnmounting(e, op, v, listOK, unmountOK, removeOK) ==
    unmountAndCleanUpIfNecessary(e, v, TRUE, listOK, unmountOK, removeOK)

\* The deferred clean up: unmountAndCleanUpIfNecessary(ctx, vol, true, ...) in
\* CreateVolume and DeleteVolume, cleanUpIfNecessary(ctx, vol, true) in
\* ValidateVolumeCapabilities. Its error is logged, not returned.
deferredCleanUp(e, op, v, listOK, unmountOK, removeOK) ==
    IF op = "ValidateVolumeCapabilities" THEN cleanUpIfNecessary(e, v, TRUE, removeOK)
    ELSE unmountAndCleanUpIfNecessary(e, v, TRUE, listOK, unmountOK, removeOK)

\* The deferred clean up with its error returned instead of logged: a failed
\* clean up turns the response into an Internal error.
DeferredCleanUpEscalating(w) ==
    /\ pc[w] = "cleanup"
    /\ \E listOK, unmountOK, removeOK \in BOOLEAN :
          LET r == deferredCleanUp(Env, req[w].op, vol[w], listOK, unmountOK, removeOK) IN
          /\ SetEnv(r.env)
          /\ resp' = [resp EXCEPT ![w] = IF r.err THEN [Response(req[w].op, "Internal")
                                                          EXCEPT !.cleanupFailed = TRUE]
                                           ELSE @]
    /\ SetPc(w, "release")
    /\ UNCHANGED <<volumeIDsInFlight, req, vol, minted, call>>

DeferredCleanUp(w) ==
    /\ pc[w] = "cleanup"
    /\ \E listOK, unmountOK, removeOK \in BOOLEAN :
          LET r == deferredCleanUp(Env, req[w].op, vol[w], listOK, unmountOK, removeOK) IN
          /\ SetEnv(r.env)
          /\ resp' = [resp EXCEPT ![w].cleanupFailed = r.err]
    /\ SetPc(w, "release")
    /\ UNCHANGED <<volumeIDsInFlight, req, vol, minted, call>>

\* The release written at the end of the handler instead of deferred: the
\* paths that return an error skip it.
DeferredReleaseOnSuccess(w) ==
    /\ pc[w] = "release"
    /\ volumeIDsInFlight' = IF resp[w].code = "OK"
                            THEN releaseLockOnString(volumeIDsInFlight, vol[w].volumeID)
                            ELSE volumeIDsInFlight
    /\ minted' = IF resp[w].op = "CreateVolume" /\ resp[w].code = "OK"
                 THEN minted \cup {resp[w].volumeId} ELSE minted
    /\ SetPc(w, "idle")
    /\ req' = [req EXCEPT ![w] = NoReq]
    /\ vol' = [vol EXCEPT ![w] = NoVol]
    /\ resp' = [resp EXCEPT ![w] = NoResp]
    /\ UNCHANGED <<env, call>>

\* defer cs.volumeIDsInFlight.releaseLockOnString(vol.volumeID), and the
\* return of the response.
DeferredRelease(w) ==
    /\ pc[w] = "release"
    /\ volumeIDsInFlight' = releaseLockOnString(volumeIDsInFlight, vol[w].volumeID)
    /\ minted' = IF resp[w].op = "CreateVolume" /\ resp[w].code = "OK"
                 THEN minted \cup {resp[w].volumeId} ELSE minted
    /\ SetPc(w, "idle")
    /\ req' = [req EXCEPT ![w] = NoReq]
    /\ vol' = [vol EXCEPT ![w] = NoVol]
    /\ resp' = [resp EXCEPT ![w] = NoResp]
    /\ UNCHANGED <<env, call>>

\* ------------------------------------------------------------------------
\* The rest of the node
\* ------------------------------------------------------------------------

PodPath == <<"/", "p", "o", "d">>

\* Something on the node bind mounts a mounted BeeGFS file system at another
\* path: the mount table gets an entry with the same device and options.
BindMount ==
    /\ \E m \in mounts :
          /\ m.path # PodPath
          /\ mounts' = mounts \cup {[m EXCEPT !.path = PodPath]}
    /\ UNCHANGED <<volumeIDsInFlight, pc, req, vol, resp, dirs, files, backend, minted, call>>

BindUnmount ==
    /\ \E m \in mounts : m.path = PodPath
    /\ mounts' = {m \in mounts : m.path # PodPath}
    /\ UNCHANGED <<volumeIDsInFlight, pc, req, vol, resp, dirs, files, backend, minted, call>>

\* The calls of the workers W, with requests drawn from R.
NextOf(W, R) ==
    \/ \E w \in W, r \in R : CreateVolumeBegin(w, r)
    \/ \E w \in W, r \in R : DeleteVolumeBegin(w, r)
    \/ \E w \in W, r \in R : ValidateVolumeCapabilitiesBegin(w, r)
    \/ \E w \in W : SendResponse(w)
    \/ \E w \in W : MkdirAll(w)
    \/ \E w \in W : WriteClientFiles(w)
    \/ \E w \in W : CreateDirectoryForVolume(w)
    \/ \E w \in W : SetPatternForVolume(w)
    \/ \E w \in W : MountIfNecessary(w)
    \/ \E w \in W : Chmod(w)
    \/ \E w \in W : DeleteVolumeRemoveAll(w)
    \/ \E w \in W : StatDirectoryForVolume(w)
    \/ \E w \in W : DeferredCleanUp(w)
    \/ \E w \in W : DeferredRelease(w)
    \/ BindMount
    \/ BindUnmount

\* The requests of the concurrent specification: well-formed ones, four for
\* the volume beegfs://h/a_/b and one for beegfs://h/a/_b.
ConcurrentRequests ==
    { CreateVolumeA, CreateVolumeASetgid, DeleteRequest(VolumeIDA),
      ValidateRequest(VolumeIDA, GoodCaps), DeleteRequest(VolumeIDB) }

\* Concurrent calls on every worker.
Next == NextOf(Workers, ConcurrentRequests)

Spec == Init /\ [][Next]_vars

\* One call after the other, with every request of the model.
NextSeq == NextOf({1}, Requests)

SpecSeq == Init /\ [][NextSeq]_vars

\* ------------------------------------------------------------------------
\* The functions of beegfs_util.go called by themselves
\* ------------------------------------------------------------------------

HostRoot == <<"/", "h", "o", "s", "t">>

\* The container mounts the root file system of the host at /host: a file
\* system mounted on the host may appear in the mount table a second time,
\* below /host.
HostRootMount ==
    /\ \E m \in mounts :
          /\ ~HasPrefix(m.path, HostRoot)
          /\ mounts' = mounts \cup {[m EXCEPT !.path = HostRoot \o m.path]}
    /\ UNCHANGED <<volumeIDsInFlight, pc, req, vol, resp, dirs, files, backend, minted, call>>

HostRootUnmount ==
    /\ \E m \in mounts : HasPrefix(m.path, HostRoot)
    /\ mounts' = {m \in mounts : ~HasPrefix(m.path, HostRoot)}
    /\ UNCHANGED <<volumeIDsInFlight, pc, req, vol, resp, dirs, files, backend, minted, call>>

\* Plugin configurations: none; interfaces and a client option; the two
\* filters and a client option.
UtilPluginConfigs ==
    { csPluginConfig,
      PluginConfig(beegfsConfig(<<"ib0">>, <<>>, <<>>,
                                GoMap(FALSE, [k \in {"connMaxInternodeNum"} |-> "8"]), ""),
                   <<>>),
      PluginConfig(beegfsConfig(<<>>, <<Filter24>>, <<FilterIP>>,
                                GoMap(FALSE, [k \in {"connMaxInternodeNum"} |-> "4"]), ""),
                   <<>>) }

\* The volumes the functions are called with: beegfs://h/a_/b under each of
\* the plugin configurations.
UtilVolumes ==
    { newBeegfsVolumeFromID(pathJoin(csDataDir, sanitizeVolumeID(VolumeIDA)), VolumeIDA,
                            pluginConfig).vol : pluginConfig \in UtilPluginConfigs }

\* Template files: the complete one, and the ones that lack one key.
UtilTemplates ==
    {clientConfTemplate} \cup
    { clientConfTemplate \ {k} :
        k \in {"sysMgmtdHost", "connClientPortUDP", "connMaxInternodeNum",
               "connInterfacesFile", "connTcpOnlyFilterFile"} }

\* The call made, with its arguments, the outcomes of the system calls under
\* it, the state before it and the error it returned.
Called(op, v, rmDir, template, oks, r) ==
    /\ call' = [op |-> op, vol |-> v, rmDir |-> rmDir, template |-> template, oks |-> oks,
                before |-> Env, err |-> r.err]
    /\ SetEnv(r.env)
    /\ UNCHANGED <<volumeIDsInFlight, pc, req, vol, resp, minted>>

\* The caller creates the working directory: fs.MkdirAll(vol.mountDirPath, 0750).
UtilMkdirAll(v) ==
    /\ call = NoCall
    /\ v.mountDirPath \notin dirs
    /\ dirs' = dirs \cup {v.mountDirPath}
    /\ UNCHANGED <<volumeIDsInFlight, pc, req, vol, resp, files, mounts, backend, minted, call>>

UtilWriteClientFiles(v) ==
    /\ call = NoCall
    /\ \E writeOK \in BOOLEAN, template \in UtilTemplates :
          Called("writeClientFiles", v, FALSE, template, <<writeOK>>,
                 writeClientFiles(Env, v, template, writeOK))

UtilMountIfNecessary(v) ==
    /\ call = NoCall
    /\ \E statOK, mkdirOK, mountOK \in BOOLEAN :
          Called("mountIfNecessary", v, FALSE, {}, <<statOK, mkdirOK, mountOK>>,
                 mountIfNecessary(Env, v, statOK, mkdirOK, mountOK))

UtilUnmountAndCleanUpIfNecessary(v) ==
    /\ call = NoCall
    /\ \E rmDir, listOK, unmountOK, removeOK \in BOOLEAN :
          Called("unmountAndCleanUpIfNecessary", v, rmDir, {}, <<listOK, unmountOK, removeOK>>,
                 unmountAndCleanUpIfNecessary(Env, v, rmDir, listOK, unmountOK, removeOK))

\* The call returned.
UtilReturn ==
    /\ call # NoCall
    /\ call' = NoCall
    /\ UNCHANGED <<volumeIDsInFlight, pc, req, vol, resp, env, minted>>

NextUtil ==
    \/ \E v \in UtilVolumes : UtilMkdirAll(v)
    \/ \E v \in UtilVolumes : UtilWriteClientFiles(v)
    \/ \E v \in UtilVolumes : UtilMountIfNecessary(v)
    \/ \E v \in UtilVolumes : UtilUnmountAndCleanUpIfNecessary(v)
    \/ UtilReturn
    \/ call = NoCall /\ BindMount
    \/ call = NoCall /\ BindUnmount
    \/ call = NoCall /\ HostRootMount
    \/ call = NoCall /\ HostRootUnmount

SpecUtil == Init /\ [][NextUtil]_vars

\* ------------------------------------------------------------------------
\* The volume ID codec called by itself
\* ------------------------------------------------------------------------

\* Management hosts validateConfig accepts: localhost, addresses written with
\* dots and with colons, domain names.
DomainAbCd == <<"a", "b", ".", "c", "d">>

HostV6One == <<":", ":", "1">>

HostV6Hex == <<"f", "e", "8", "0", ":", ":", "a", "b">>

CodecHosts == {Localhost, Host1, DomainAbCd, HostV6One, HostV6Hex}

\* Absolute paths, with characters url.URL.String encodes and without
CodecPaths ==
    { <<"/">>, <<"/", "a">>, <<"/", "a", "_", "/", "b">>, <<"/", "/", "a", "/">>,
      <<"/", "a", " ", "b">>, <<"/", "a", "%", "2", "F">>, <<"/", "a", "?", "b", "#", "c">>,
      <<"/", "a", "/", ".", ".", "/", "b">>, <<"/", "a", ":", "b">>, <<"/", "A", "@", "b">> }

\* Volume IDs handed to parseBeegfsUrl that newBeegfsUrl did not make
CodecUrls ==
    { <<"n", "f", "s">> \o Drop(VolumeIDA, 6),
      <<"B", "e", "e", "G", "F", "S">> \o Drop(VolumeIDA, 6),
      <<"b", "e", "e", "g", "f", "s", "2">> \o Drop(VolumeIDA, 6),
      Drop(VolumeIDA, 6),
      Drop(VolumeIDA, 9),
      VolumeIDA }

\* newBeegfsUrl(host, path), and parseBeegfsUrl of what it returns
NewBeegfsUrl ==
    /\ call = NoCall
    /\ \E host \in CodecHosts, path \in CodecPaths :
          call' = [ op |-> "newBeegfsUrl", host |-> host, path |-> path,
                    url |-> newBeegfsUrl(host, path),
                    parsed |-> parseBeegfsUrl(newBeegfsUrl(host, path)) ]
    /\ UNCHANGED <<volumeIDsInFlight, pc, req, vol, resp, env, minted>>

\* parseBeegfsUrl(rawUrl)
ParseBeegfsUrl ==
    /\ call = NoCall
    /\ \E rawUrl \in CodecUrls :
          call' = [ op |-> "parseBeegfsUrl", rawUrl |-> rawUrl,
                    parsed |-> parseBeegfsUrl(rawUrl) ]
    /\ UNCHANGED <<volumeIDsInFlight, pc, req, vol, resp, env, minted>>

\* Volume IDs of the length at which sanitizeVolumeID begins to hash:
\* beegfs://h/ and n times the character c, then "a".
LongVolumeID(c, n) == SchemePrefix \o <<"h", "/">> \o [i \in 1..n |-> c] \o <<"a">>

SanitizeVolumeIDs ==
    {newBeegfsUrl(host, path) : host \in CodecHosts, path \in CodecPaths}
    \cup {VolumeIDA, VolumeIDB}
    \cup {LongVolumeID("a", 252), LongVolumeID("a", 253), LongVolumeID("a", 300),
          LongVolumeID("_", 126), LongVolumeID("_", 127)}

\* sanitizeVolumeID(volumeID)
SanitizeVolumeID ==
    /\ call = NoCall
    /\ \E volumeID \in SanitizeVolumeIDs :
          call' = [ op |-> "sanitizeVolumeID", volumeID |-> volumeID,
                    result |-> sanitizeVolumeID(volumeID) ]
    /\ UNCHANGED <<volumeIDsInFlight, pc, req, vol, resp, env, minted>>

NextCodec ==
    \/ NewBeegfsUrl
    \/ ParseBeegfsUrl
    \/ SanitizeVolumeID
    \/ UtilReturn

SpecCodec == Init /\ [][NextCodec]_vars

\* ------------------------------------------------------------------------
\* The configuration functions called by themselves
\* ------------------------------------------------------------------------

\* The client options a and b with the values given, "" for none.
Entries(a, b) ==
    [k \in (IF a # "" THEN {"a"} ELSE {}) \cup (IF b # "" THEN {"b"} ELSE {}) |->
        IF k = "a" THEN a ELSE b]

\* Configurations as a file gives them (no connAuth): nothing set; lists
\* only; an empty map; maps; a no-effect option; a filter that is no address.
ConfigNone == zeroBeegfsConfig

ConfigLists == beegfsConfig(<<"ib0", "ib1">>, <<Filter24>>, <<>>, GoMap(TRUE, NoEntries), "")

ConfigEmptyMap == beegfsConfig(<<>>, <<>>, <<FilterIP>>, GoMap(FALSE, NoEntries), "")

ConfigMapA == beegfsConfig(<<>>, <<>>, <<>>, GoMap(FALSE, Entries("1", "")), "")

ConfigMapAB == beegfsConfig(<<"ib2">>, <<>>, <<>>, GoMap(FALSE, Entries("2", "2")), "")

ConfigNoEffect ==
    beegfsConfig(<<>>, <<>>, <<>>,
                 GoMap(FALSE, [k \in {"connPortShift", "connAuthFile", "b"} |-> "3"]), "")

ConfigBadFilter == beegfsConfig(<<>>, <<BadFilter>>, <<>>, GoMap(TRUE, NoEntries), "")

ConfigBadTcpFilter ==
    beegfsConfig(<<>>, <<Filter24>>, <<FilterIP, BadFilter>>, GoMap(TRUE, NoEntries), "")

FileConfigs ==
    {ConfigNone, ConfigLists, ConfigEmptyMap, ConfigMapA, ConfigMapAB, ConfigNoEffect}

\* The configurations overwriteFrom is called with: the ones above, with and
\* without a connAuth.
OverwriteConfigs ==
    {[c EXCEPT !.connAuth = secret] : c \in FileConfigs, secret \in {"", "s1", "s2"}}

\* Lists of file system specific configurations.
FileSystemSpecificConfigLists ==
    { <<>>,
      <<FileSystemSpecificConfig(Host1, ConfigLists)>>,
      <<FileSystemSpecificConfig(Host1, ConfigMapA)>>,
      <<FileSystemSpecificConfig(Localhost, ConfigMapAB)>>,
      <<FileSystemSpecificConfig(Host1, ConfigEmptyMap),
        FileSystemSpecificConfig(Localhost, ConfigLists)>>,
      <<FileSystemSpecificConfig(Localhost, ConfigNone),
        FileSystemSpecificConfig(Host1, ConfigMapAB)>> }

\* Lists of node specific configurations.
NodeSpecificConfigLists ==
    { <<>>,
      <<nodeSpecificConfig(<<"node1">>, ConfigMapAB, <<>>)>>,
      <<nodeSpecificConfig(<<"node1">>, ConfigNone,
                           <<FileSystemSpecificConfig(Host1, ConfigMapAB)>>)>>,
      <<nodeSpecificConfig(<<"node2">>, ConfigMapAB,
                           <<FileSystemSpecificConfig(Host1, ConfigMapAB)>>)>>,
      <<nodeSpecificConfig(<<"node2", "node1">>, ConfigLists,
                           <<FileSystemSpecificConfig(Localhost, ConfigMapA)>>),
        nodeSpecificConfig(<<"node1">>, ConfigEmptyMap,
                           <<FileSystemSpecificConfig(Host1, ConfigLists)>>)>> }

\* Lists a file may hold besides: a host that is no host, a filter that is
\* no address, the same host twice, a no-effect and an unsupported option.
OtherFileSystemSpecificConfigLists ==
    { <<FileSystemSpecificConfig(BadHost, ConfigNone)>>,
      <<FileSystemSpecificConfig(Host1, ConfigBadTcpFilter)>>,
      <<FileSystemSpecificConfig(Host1, ConfigMapA),
        FileSystemSpecificConfig(Host1, ConfigLists)>>,
      <<FileSystemSpecificConfig(Localhost, ConfigNoEffect)>> }

\* The configuration files: what yaml.UnmarshalStrict makes of them.
RawConfigs ==
    { pluginConfigFromFile(d, f, n) :
        d \in FileConfigs \cup {ConfigBadFilter},
        f \in FileSystemSpecificConfigLists \cup OtherFileSystemSpecificConfigLists,
        n \in NodeSpecificConfigLists }

Host2 == <<"1", "0", ".", "0", ".", "0", ".", "2">>

\* The connAuth files: what yaml.UnmarshalStrict makes of them.
ConnAuthConfigLists ==
    { <<>>,
      <<connAuthConfig(Host1, "s1")>>,
      <<connAuthConfig(Host1, "")>>,
      <<connAuthConfig(Localhost, "s1"), connAuthConfig(Host2, "s2")>>,
      <<connAuthConfig(Host1, "s1"), connAuthConfig(Host1, "")>>,
      <<connAuthConfig(Host2, "s1"), connAuthConfig(Host2, "s2")>>,
      <<connAuthConfig(BadHost, "s1")>> }

NodeIDs == {"node1", "node3"}

\* The call of a configuration function: its arguments and its result.
ConfigCalled(c) ==
    /\ call' = c
    /\ UNCHANGED <<volumeIDsInFlight, pc, req, vol, resp, env, minted>>

\* The driver starts: parseConfigFromFile(path, nodeID).
ParseConfigFromFile ==
    /\ call = NoCall
    /\ \E rawConfig \in RawConfigs, nodeID \in NodeIDs :
          ConfigCalled([ op |-> "parseConfigFromFile", rawConfig |-> rawConfig,
                         nodeID |-> nodeID,
                         nodeScoped |-> nodeScoped(rawConfig, nodeID),
                         result |-> parseConfigFromFile(rawConfig, nodeID) ])

\* A volume is constructed with the configuration parsed:
\* squashConfigForSysMgmtdHost(sysMgmtdHost, pluginConfig).
SquashConfigForSysMgmtdHost ==
    /\ call.op = "parseConfigFromFile"
    /\ ~call.result.panic /\ ~call.result.err
    /\ \E sysMgmtdHost \in {Host1, Localhost, HostH} :
          ConfigCalled([ op |-> "squashConfigForSysMgmtdHost",
                         rawConfig |-> call.rawConfig, nodeID |-> call.nodeID,
                         pluginConfig |-> call.result.config,
                         sysMgmtdHost |-> sysMgmtdHost,
                         result |-> squashConfigForSysMgmtdHost(sysMgmtdHost,
                                                                call.result.config),
                         refs |-> squashRefs(sysMgmtdHost, call.result.config) ])

\* The caller writes through the configuration returned: it assigns the
\* elements of one of its slices, or sets an entry of its map.
WriteThroughResult ==
    /\ call.op = "squashConfigForSysMgmtdHost"
    /\ \E field \in DOMAIN call.refs :
          /\ field # "BeegfsClientConf" => call.result[field] # <<>>
          /\ ConfigCalled([ op |-> "writeThroughResult", field |-> field,
                            sysMgmtdHost |-> call.sysMgmtdHost,
                            pluginConfig |-> call.pluginConfig,
                            after |-> pluginConfigWrittenThrough(call.pluginConfig, field,
                                                                 call.refs[field]) ])

\* The driver goes on: parseConnAuthFromFile(path, &pluginConfig), with the
\* configuration parsed.
ParseConnAuthFromFile ==
    /\ call.op = "parseConfigFromFile"
    /\ ~call.result.panic /\ ~call.result.err
    /\ \E connAuthConfigs \in ConnAuthConfigLists :
          ConfigCalled([ op |-> "parseConnAuthFromFile",
                         rawConfig |-> call.rawConfig, nodeID |-> call.nodeID,
                         pluginConfig |-> call.result.config,
                         connAuthConfigs |-> connAuthConfigs,
                         result |-> parseConnAuthFromFile(connAuthConfigs,
                                                          call.result.config) ])

\* A configuration is logged: json.Marshal calls its MarshalJSON.
BeegfsConfigMarshalJSON ==
    /\ call = NoCall
    /\ \E c \in OverwriteConfigs :
          ConfigCalled([ op |-> "beegfsConfig.MarshalJSON", c |-> c,
                         result |-> beegfsConfigMarshalJSON(c) ])

\* The entries of a connAuth file are logged.
ConnAuthConfigMarshalJSON ==
    /\ call = NoCall
    /\ \E connAuthConfigs \in ConnAuthConfigLists :
          \E i \in DOMAIN connAuthConfigs :
              ConfigCalled([ op |-> "connAuthConfig.MarshalJSON", c |-> connAuthConfigs[i],
                             result |-> connAuthConfigMarshalJSON(connAuthConfigs[i]) ])

OverwriteFrom ==
    /\ call = NoCall
    /\ \E c \in OverwriteConfigs, writeFrom \in OverwriteConfigs :
          ConfigCalled([ op |-> "overwriteFrom", c |-> c, writeFrom |-> writeFrom,
                         result |-> overwriteFrom(c, writeFrom) ])

OverwriteFileSystemSpecificConfigs ==
    /\ call = NoCall
    /\ \E writeTo \in FileSystemSpecificConfigLists,
          writeFrom \in FileSystemSpecificConfigLists :
          ConfigCalled([ op |-> "overwriteFileSystemSpecificConfigs",
                         writeTo |-> writeTo, writeFrom |-> writeFrom,
                         result |-> overwriteFileSystemSpecificConfigs(writeTo, writeFrom) ])

NextConfig ==
    \/ ParseConfigFromFile
    \/ ParseConnAuthFromFile
    \/ SquashConfigForSysMgmtdHost
    \/ WriteThroughResult
    \/ OverwriteFrom
    \/ OverwriteFileSystemSpecificConfigs
    \/ BeegfsConfigMarshalJSON
    \/ ConnAuthConfigMarshalJSON
    \/ UtilReturn

SpecConfig == Init /\ [][NextConfig]_vars

\* ------------------------------------------------------------------------
\* Properties
\* ------------------------------------------------------------------------

\* The worker is between its acquire of a volume ID and its release of it.
InCritical(w) == pc[w] \notin {"idle", "return"}

\* The volume ID a well-formed request is about.
requestVolumeID(r) ==
    IF r.op = "CreateVolume" THEN createVolumeVolOf[r].volumeID
    ELSE volumeFromIDOf[r.volumeId].vol.volumeID

\* Worker w takes the step that begins a call.
Begins(w) == pc[w] = "idle" /\ pc'[w] # "idle"

\* The directory of a volume on its backend.
BackendDir(v) == [host |-> v.sysMgmtdHost, path |-> v.volDirPathBeegfsRoot]

\* C1: for every volume ID, at most one call is between its acquire of the
\* volume ID and its release of it: two workers that are both past the lock
\* never work on the same volume ID.
MutualExclusion ==
    \A w1, w2 \in Workers :
        w1 # w2 /\ InCritical(w1) /\ InCritical(w2) => vol[w1].volumeID # vol[w2].volumeID

\* A call works on a volume ID while a second call on the same volume ID has
\* been answered Aborted.
MutualExclusionWitness ==
    \E w1, w2 \in Workers :
        /\ InCritical(w1)
        /\ pc[w2] = "return" /\ resp[w2].code = "Aborted"
        /\ requestVolumeID(req[w2]) = vol[w1].volumeID

NoLockLeak ==
    \A id \in volumeIDsInFlight : \E w \in Workers : InCritical(w) /\ vol[w].volumeID = id

\* A caller was answered Aborted, and the call that held the volume ID has
\* finished since: the volume ID is free for the retry.
NoLockLeakWitness ==
    \E w \in Workers :
        /\ pc[w] = "return" /\ resp[w].code = "Aborted"
        /\ requestVolumeID(req[w]) \notin volumeIDsInFlight
        /\ dirs # {}

\* C4: two calls that run at the same time on different volume IDs have
\* different working directories and different client files.
DistinctVolumeIDsDistinctDirs ==
    \A w1, w2 \in Workers :
        InCritical(w1) /\ InCritical(w2) /\ vol[w1].volumeID # vol[w2].volumeID =>
            /\ vol[w1].mountDirPath # vol[w2].mountDirPath
            /\ vol[w1].clientConfPath # vol[w2].clientConfPath

\* C5: a call on a volume ID that is held is answered Aborted, and neither
\* that step nor the sending of the answer changes the local disk, the mount
\* table, a backend or the set of held volume IDs.
AbortedHasNoSideEffects ==
    [][\A w \in Workers :
          /\ Begins(w) /\ requestVolumeID(req'[w]) \in volumeIDsInFlight =>
                /\ pc'[w] = "return" /\ resp'[w].code = "Aborted"
                /\ UNCHANGED <<env, volumeIDsInFlight>>
          /\ pc[w] = "return" /\ pc'[w] # "return" =>
                UNCHANGED <<env, volumeIDsInFlight>>]_vars

\* A call has been answered Aborted while the call that holds the volume ID
\* has its working directory on disk.
AbortedHasNoSideEffectsWitness ==
    \E w1, w2 \in Workers :
        /\ pc[w2] = "return" /\ resp[w2].code = "Aborted"
        /\ InCritical(w1) /\ vol[w1].volumeID = requestVolumeID(req[w2])
        /\ vol[w1].volumeID \in volumeIDsInFlight
        /\ vol[w1].mountDirPath \in dirs

\* The parameters CreateVolume has to refuse: a mode that is not octal, a
\* mode of more than twelve bits, a negative owner, a group beyond 32 bits, an
\* unknown permissions key and an unknown stripe pattern key.
RefusedParams ==
    { Param(permissionsModeKey, <<"0", "7", "8">>),
      Param(permissionsModeKey, <<"1", "7", "7", "7", "7">>),
      Param(permissionsUIDKey, <<"-", "1">>),
      Param(permissionsGIDKey, <<"4", "2", "9", "4", "9", "6", "7", "2", "9", "6">>),
      Param(<<"permissions", "umask">>, <<"2">>),
      Param(<<"stripePattern", "raidLevel">>, <<"0">>) }

\* A CreateVolume request with one of the defects of input validation.
Defective(r) ==
    \/ r.name = <<>>
    \/ r.caps = <<>>
    \/ \E i \in DOMAIN r.caps : r.caps[i] = "BLOCK_SINGLE_NODE_WRITER"
    \/ r.params = {}
    \/ ~\E kv \in r.params : kv.k = <<"sysMgmtdHost">>
    \/ ~\E kv \in r.params : kv.k = <<"volDirBasePath">>
    \/ r.params \cap RefusedParams # {}

\* C6: a CreateVolume request that fails input validation is answered
\* InvalidArgument before the lock is asked for, and neither that step nor the
\* sending of the answer changes the local disk, the mount table, a backend or
\* the set of held volume IDs.
CreateVolumeRefusesDefects ==
    [][\A w \in Workers :
          /\ Begins(w) /\ req'[w].op = "CreateVolume" /\ Defective(req'[w]) =>
                /\ pc'[w] = "return" /\ resp'[w].code = "InvalidArgument"
                /\ UNCHANGED <<env, volumeIDsInFlight>>
          /\ pc[w] = "return" /\ resp[w].code = "InvalidArgument" /\ pc'[w] # "return" =>
                UNCHANGED <<env, volumeIDsInFlight>>]_vars

\* A defective CreateVolume request has been answered InvalidArgument on a
\* controller that has a volume on a backend.
CreateVolumeRefusesDefectsWitness ==
    \E w \in Workers :
        /\ pc[w] = "return" /\ req[w].op = "CreateVolume" /\ Defective(req[w])
        /\ resp[w].code = "InvalidArgument"
        /\ backend # {} /\ volumeIDsInFlight = {}

\* C7: DeleteVolume and ValidateVolumeCapabilities answer InvalidArgument to a
\* volume ID of another scheme.
ForeignVolumeIDIsInvalidArgument ==
    \A w \in Workers :
        /\ pc[w] = "return"
        /\ req[w].op \in {"DeleteVolume", "ValidateVolumeCapabilities"}
        /\ req[w].volumeId = VolumeIDForeign
        => resp[w].code = "InvalidArgument"

BasePathOf(r) == pathClean(<<"/">> \o Get(r.params, volDirBasePathKey))

\* C9: the volume ID a successful CreateVolume returns decodes to the
\* management host of the request and to an absolute path below the base path
\* of the request.
ReturnedVolumeIDUnderBasePath ==
    \A w \in Workers :
        pc[w] = "release" /\ resp[w].op = "CreateVolume" /\ resp[w].code = "OK" =>
            LET under(u) ==
                    /\ ~u.err
                    /\ u.sysMgmtdHost = Get(req[w].params, sysMgmtdHostKey)
                    /\ u.path # BasePathOf(req[w])
                    /\ IsUnder(u.path, BasePathOf(req[w]))
            IN  under(parseBeegfsUrl(resp[w].volumeId))

\* C10, as claimed: when a call that acquired the lock returns, the working
\* directory of its volume is not on the local disk.
WorkingDirGoneAtReturn ==
    \A w \in Workers : pc[w] = "release" => vol[w].mountDirPath \notin dirs

\* C10, amended: a call that acquired the lock returns only after its
\* deferred clean up, whatever the primary operation ended with; when the
\* clean up reports no error, the working directory and the client file are
\* gone after it. An error of the clean up is logged and the directory may
\* stay.
CleanUpRunsAndRemoves ==
    [][\A w \in Workers :
          /\ InCritical(w) /\ pc'[w] = "idle" => pc[w] = "release"
          /\ pc[w] # "release" /\ pc'[w] = "release" => pc[w] = "cleanup"
          /\ pc[w] = "cleanup" /\ pc'[w] = "release" /\ ~resp'[w].cleanupFailed =>
                /\ vol[w].mountDirPath \notin dirs'
                /\ \A f \in files' : f.path # vol[w].clientConfPath]_vars

\* A call whose primary operation failed is about to return: the clean up
\* reported no error and the working directory is gone.
CleanUpRunsAndRemovesWitness ==
    \E w \in Workers :
        /\ pc[w] = "release"
        /\ resp[w].code = "Internal" /\ ~resp[w].cleanupFailed
        /\ vol[w].mountDirPath \notin dirs

\* C11: the deferred clean up never changes the response of the call. The
\* response the primary operation decided (status, volume ID, confirmation,
\* message) is the response when the call returns, whether the clean up
\* failed or not.
CleanUpKeepsResponse ==
    [][\A w \in Workers :
          pc[w] = "cleanup" /\ pc'[w] # "cleanup" =>
              [resp'[w] EXCEPT !.cleanupFailed = FALSE] = resp[w]]_vars

\* A DeleteVolume is about to return OK although its clean up failed.
CleanUpKeepsResponseWitness ==
    /\ pc[1] = "release"
    /\ resp[1].cleanupFailed
    /\ resp[1].code = "OK"
    /\ resp[1].op = "DeleteVolume"

\* unmountAndCleanUpIfNecessary was called and mounter.List succeeded.
Unmounted == call.op = "unmountAndCleanUpIfNecessary" /\ call.oks[1]

\* The entries of the mount table before the call that have the BeeGFS device
\* and an option that names the client file of the volume of the call.
EntriesOfVolume ==
    {m \in call.before.mounts :
        /\ m.device = BeegfsDevice
        /\ \E opt \in m.opts : Contains(opt, call.vol.clientConfPath)}

\* C12, as claimed: if the mount table holds an entry with the BeeGFS device
\* at a path different from the mount path of the volume, with an option that
\* names the client file of the volume, unmountAndCleanUpIfNecessary fails and
\* changes neither the mount table nor the disk.
BindConflictAtAnyOtherPath ==
    Unmounted /\ (\E m \in EntriesOfVolume : m.path # call.vol.mountPath) =>
        call.err /\ Env = call.before

\* C12, amended: the same, for an entry at a path that does not contain the
\* mount path of the volume. An entry at a path that contains the mount path
\* (the same mount seen below /host) is not taken for a bind mount.
BindConflictAtUnrelatedPath ==
    Unmounted /\ (\E m \in EntriesOfVolume : ~Contains(m.path, call.vol.mountPath)) =>
        call.err /\ Env = call.before

\* The volume was mounted and bind mounted at the pod's path when
\* unmountAndCleanUpIfNecessary was called: the call failed, the mount and the
\* working directory are still there.
BindConflictAtUnrelatedPathWitness ==
    /\ Unmounted
    /\ \E m \in EntriesOfVolume : m.path = PodPath
    /\ \E m \in EntriesOfVolume : m.path = call.vol.mountPath
    /\ call.err
    /\ \E m \in mounts : m.path = call.vol.mountPath
    /\ call.vol.mountDirPath \in dirs

\* unmountAndCleanUpIfNecessary was called with nothing mounted at the mount
\* path, no bind mount of the volume elsewhere, and no system call failing for
\* reasons of its own.
UnmountedAlready ==
    /\ Unmounted
    /\ call.oks = <<TRUE, TRUE, TRUE>>
    /\ MountsAt(call.before, call.vol.mountPath) = {}
    /\ ~bindMountedElsewhere(call.before, call.vol)

\* C13, as claimed: unmountAndCleanUpIfNecessary called with the mount path
\* already unmounted returns no error.
UnmountedAlreadyIsNoError == UnmountedAlready => ~call.err

\* C13, amended: called with the mount path already unmounted, the function
\* goes on to the clean up and returns its result. That is an error exactly
\* when rmDir is false and the working directory does not exist; otherwise the
\* mount point and the files in the working directory are gone, and so is the
\* working directory when rmDir is true. A second call, right after a call
\* that returned no error, returns no error and changes nothing.
UnmountIsIdempotent ==
    /\ UnmountedAlready =>
          /\ call.err <=> (~call.rmDir /\ call.vol.mountDirPath \notin call.before.dirs)
          /\ ~call.err =>
                /\ call.vol.mountPath \notin dirs
                /\ \A f \in files : ~IsUnder(f.path, call.vol.mountDirPath)
                /\ call.vol.mountDirPath \in dirs <=> ~call.rmDir
    /\ Unmounted /\ ~call.err =>
          unmountAndCleanUpIfNecessary(Env, call.vol, call.rmDir, TRUE, TRUE, TRUE)
              = [err |-> FALSE, env |-> Env]

\* The client file was in the working directory and nothing was mounted when
\* unmountAndCleanUpIfNecessary was called: it returned no error and the file
\* is gone.
UnmountIsIdempotentWitness ==
    /\ UnmountedAlready
    /\ \E f \in call.before.files : f.path = call.vol.clientConfPath
    /\ call.vol.mountPath \in call.before.dirs
    /\ ~call.err
    /\ files = {}

\* C14: mountIfNecessary is idempotent. Called on a mount path that is a mount
\* point it returns no error and changes nothing. Called on a mount path that
\* does not exist, with the working directory and the client file in place
\* and neither os.Mkdir nor the mount failing, it creates the mount path and
\* mounts on it. After every call that returned no error there is exactly one
\* mount on the mount path.
MountIsIdempotent ==
    call.op = "mountIfNecessary" =>
        /\ MountsAt(call.before, call.vol.mountPath) # {} /\ call.oks[1] =>
              ~call.err /\ Env = call.before
        /\ /\ call.vol.mountPath \notin call.before.dirs
           /\ call.vol.mountDirPath \in call.before.dirs
           /\ \E f \in call.before.files : f.path = call.vol.clientConfPath
           /\ call.oks[2] /\ call.oks[3]
           => /\ ~call.err
              /\ dirs = call.before.dirs \cup {call.vol.mountPath}
        /\ ~call.err => Cardinality(MountsAt(Env, call.vol.mountPath)) = 1

\* mountIfNecessary was called on a mount path that was a mount point: it
\* returned no error and the one mount is there.
MountIsIdempotentWitness ==
    /\ call.op = "mountIfNecessary"
    /\ MountsAt(call.before, call.vol.mountPath) # {}
    /\ ~call.err
    /\ Cardinality(MountsAt(Env, call.vol.mountPath)) = 1

\* The keys writeClientFiles sets for the volume of the call: the management
\* host, the port, the client options of the volume's configuration, and the
\* key of each list file whose list is not empty.
KeysToSet ==
    {"sysMgmtdHost", "connClientPortUDP"}
    \cup DOMAIN call.vol.config.BeegfsClientConf.kv
    \cup (IF Len(call.vol.config.ConnInterfaces) # 0 THEN {"connInterfacesFile"} ELSE {})
    \cup (IF Len(call.vol.config.ConnNetFilter) # 0 THEN {"connNetFilterFile"} ELSE {})
    \cup (IF Len(call.vol.config.ConnTcpOnlyFilter) # 0 THEN {"connTcpOnlyFilterFile"} ELSE {})

\* The client file of the volume of the call, in the files fs.
ClientConfIn(fs) == {f \in fs : f.path = call.vol.clientConfPath}

\* C15: writeClientFiles sets only keys of the template. When a key it has to
\* set is not in the template it returns an error and does not write the
\* client file; the client file it writes has the keys of the template and
\* no other.
WriteClientFilesSetsTemplateKeysOnly ==
    call.op = "writeClientFiles" =>
        /\ ~(KeysToSet \subseteq call.template) =>
              call.err /\ ClientConfIn(files) = ClientConfIn(call.before.files)
        /\ ~call.err =>
              /\ KeysToSet \subseteq call.template
              /\ \E f \in ClientConfIn(files) : f.keys = call.template

\* The configuration has a TCP-only filter and the template lacks the key of
\* its file: writeClientFiles wrote the net filter file, returned an error and
\* wrote no client file.
WriteClientFilesSetsTemplateKeysOnlyWitness ==
    /\ call.op = "writeClientFiles"
    /\ call.oks[1]
    /\ call.vol.mountDirPath \in call.before.dirs
    /\ Len(call.vol.config.ConnTcpOnlyFilter) # 0
    /\ "connTcpOnlyFilterFile" \notin call.template
    /\ call.err
    /\ ClientConfIn(files) = {}
    /\ \E f \in files : f.path = pathJoin(call.vol.mountDirPath, connNetFilterFileName)

\* C16: the answer of ValidateVolumeCapabilities for a volume ID that decodes,
\* once it holds the lock. It is NotFound only when the directory of the
\* volume does not exist on the backend and Internal when a step failed
\* otherwise; it is a response without error only when the directory exists,
\* confirmed when every requested capability is supported, and otherwise not
\* confirmed and with a message.
ValidateAnswers ==
    \A w \in Workers :
        pc[w] = "cleanup" /\ req[w].op = "ValidateVolumeCapabilities" =>
            /\ resp[w].code \in {"OK", "NotFound", "Internal"}
            /\ resp[w].code = "NotFound" => BackendDir(vol[w]) \notin backend
            /\ resp[w].code = "OK" =>
                  /\ BackendDir(vol[w]) \in backend
                  /\ resp[w].confirmed <=> isValidVolumeCapabilities(req[w].caps)
                  /\ resp[w].message <=> ~isValidVolumeCapabilities(req[w].caps)
            /\ resp[w].code # "OK" => ~resp[w].confirmed /\ ~resp[w].message

\* ValidateVolumeCapabilities of an existing volume with a capability that is
\* not supported ended without error, not confirmed, with a message.
ValidateAnswersWitness ==
    /\ pc[1] = "cleanup"
    /\ req[1].op = "ValidateVolumeCapabilities"
    /\ ~isValidVolumeCapabilities(req[1].caps)
    /\ resp[1].code = "OK" /\ ~resp[1].confirmed /\ resp[1].message

\* C17: CreateVolume mounts only for an access mode with special permission
\* bits. It reaches mountIfNecessary only from a successful
\* setPatternForVolume, with the directory of the volume created, and only
\* when the mode has one of the bits; for a mode without them no step of the
\* call before its deferred clean up changes the mount table.
CreateVolumeMountsForSpecialPermissionsOnly ==
    [][\A w \in Workers :
          req'[w].op = "CreateVolume" /\ pc'[w] # pc[w] =>
              /\ pc'[w] = "mount" =>
                    /\ pc[w] = "setPattern"
                    /\ hasSpecialPermissions(permissionsMode(req[w].params))
                    /\ BackendDir(vol[w]) \in backend
              /\ ~hasSpecialPermissions(permissionsMode(req'[w].params)) =>
                    /\ pc'[w] \notin {"mount", "chmod"}
                    /\ pc[w] # "cleanup" => mounts' = mounts]_vars

\* A CreateVolume with the setgid bit in its mode has mounted the backend and
\* is about to change the mode of the directory it created.
CreateVolumeMountsForSpecialPermissionsOnlyWitness ==
    /\ pc[1] = "chmod"
    /\ req[1].op = "CreateVolume"
    /\ hasSpecialPermissions(permissionsMode(req[1].params))
    /\ \E m \in mounts : m.path = vol[1].mountPath
    /\ BackendDir(vol[1]) \in backend


\* C18: the precedence of the effective configuration of a file system. Of
\* a field that neither the file system specific configurations of the file
\* nor those of the applicable node specific configurations set for the
\* management host: set at the default level only, it has the value of the
\* default level; set by the default configuration of an applicable node
\* specific configuration, it has the value of the last of these. The
\* configuration file is parsed without panic.
EffectiveConfigPrecedence ==
    /\ call.op = "parseConfigFromFile" => ~call.result.panic
    /\ call.op = "squashConfigForSysMgmtdHost" =>
        LET raw == call.rawConfig
            Applicable == {n \in DOMAIN raw.NodeSpecificConfigs :
                             \E i \in DOMAIN raw.NodeSpecificConfigs[n].NodeList :
                                 raw.NodeSpecificConfigs[n].NodeList[i] = call.nodeID}
            OfHost(configs) == {configs[i].Config : i \in
                                  {j \in DOMAIN configs :
                                     configs[j].SysMgmtdHost = call.sysMgmtdHost}}
            Specific == OfHost(raw.FileSystemSpecificConfigs) \cup
                        UNION {OfHost(raw.NodeSpecificConfigs[n].FileSystemSpecificConfigs) :
                                 n \in Applicable}
            NodeSets(n, k) == k \in DOMAIN raw.NodeSpecificConfigs[n].DefaultConfig.BeegfsClientConf.kv
            NodeLists(n) == raw.NodeSpecificConfigs[n].DefaultConfig.ConnInterfaces # <<>>
            Last(S) == CHOOSE n \in S : \A m \in S : m <= n
        IN  /\ (\A c \in Specific : c.ConnInterfaces = <<>>) =>
                  call.result.ConnInterfaces =
                      IF \E n \in Applicable : NodeLists(n)
                      THEN raw.NodeSpecificConfigs[Last({n \in Applicable : NodeLists(n)})]
                              .DefaultConfig.ConnInterfaces
                      ELSE raw.DefaultConfig.ConnInterfaces
            /\ \A k \in {"a", "b"} :
                  (\A c \in Specific : k \notin DOMAIN c.BeegfsClientConf.kv) =>
                      IF \E n \in Applicable : NodeSets(n, k)
                      THEN /\ k \in DOMAIN call.result.BeegfsClientConf.kv
                           /\ call.result.BeegfsClientConf.kv[k] =
                                 raw.NodeSpecificConfigs[Last({n \in Applicable : NodeSets(n, k)})]
                                    .DefaultConfig.BeegfsClientConf.kv[k]
                      ELSE IF k \in DOMAIN raw.DefaultConfig.BeegfsClientConf.kv
                      THEN /\ k \in DOMAIN call.result.BeegfsClientConf.kv
                           /\ call.result.BeegfsClientConf.kv[k] =
                                 raw.DefaultConfig.BeegfsClientConf.kv[k]
                      ELSE k \notin DOMAIN call.result.BeegfsClientConf.kv

\* C19: overwriteFrom merges field by field. A list of writeFrom that is not
\* empty replaces the list of the receiver, an empty one leaves it; the
\* entries of the map of writeFrom are written over those of the receiver,
\* whose other entries stay; an empty connAuth leaves the connAuth of the
\* receiver. The call ends without panic.
OverwriteFromMergesPerField ==
    call.op = "overwriteFrom" =>
        /\ ~call.result.panic
        /\ call.result.c.ConnInterfaces =
              IF call.writeFrom.ConnInterfaces # <<>> THEN call.writeFrom.ConnInterfaces
              ELSE call.c.ConnInterfaces
        /\ call.result.c.ConnNetFilter =
              IF call.writeFrom.ConnNetFilter # <<>> THEN call.writeFrom.ConnNetFilter
              ELSE call.c.ConnNetFilter
        /\ call.result.c.ConnTcpOnlyFilter =
              IF call.writeFrom.ConnTcpOnlyFilter # <<>> THEN call.writeFrom.ConnTcpOnlyFilter
              ELSE call.c.ConnTcpOnlyFilter
        /\ call.result.c.connAuth =
              IF call.writeFrom.connAuth # "" THEN call.writeFrom.connAuth
              ELSE call.c.connAuth
        /\ DOMAIN call.result.c.BeegfsClientConf.kv =
              DOMAIN call.c.BeegfsClientConf.kv \cup DOMAIN call.writeFrom.BeegfsClientConf.kv
        /\ \A k \in DOMAIN call.writeFrom.BeegfsClientConf.kv :
              call.result.c.BeegfsClientConf.kv[k] = call.writeFrom.BeegfsClientConf.kv[k]
        /\ \A k \in DOMAIN call.c.BeegfsClientConf.kv
                    \ DOMAIN call.writeFrom.BeegfsClientConf.kv :
              call.result.c.BeegfsClientConf.kv[k] = call.c.BeegfsClientConf.kv[k]


\* C20: overwriteFileSystemSpecificConfigs merges by management host. A
\* configuration of writeFrom for a host that has a configuration in writeTo
\* is merged into it field by field, the fields it does not set being kept;
\* a configuration for a host without one in writeTo is added as it is; the
\* configurations of the other hosts of writeTo are unchanged. The call ends
\* without panic.
FileSystemSpecificConfigsMergeByHost ==
    call.op = "overwriteFileSystemSpecificConfigs" =>
        LET writeTo == call.writeTo
            writeFrom == call.writeFrom
            configs == call.result.configs
            Added == {j \in 1..Len(writeFrom) :
                        \A i \in 1..Len(writeTo) :
                            writeTo[i].SysMgmtdHost # writeFrom[j].SysMgmtdHost}
            List(old, new) == IF new # <<>> THEN new ELSE old
            Merged(old, new, res) ==
                /\ res.ConnInterfaces = List(old.ConnInterfaces, new.ConnInterfaces)
                /\ res.ConnNetFilter = List(old.ConnNetFilter, new.ConnNetFilter)
                /\ res.ConnTcpOnlyFilter =
                      List(old.ConnTcpOnlyFilter, new.ConnTcpOnlyFilter)
                /\ res.connAuth = IF new.connAuth # "" THEN new.connAuth ELSE old.connAuth
                /\ DOMAIN res.BeegfsClientConf.kv =
                      DOMAIN old.BeegfsClientConf.kv \cup DOMAIN new.BeegfsClientConf.kv
                /\ \A k \in DOMAIN res.BeegfsClientConf.kv :
                      res.BeegfsClientConf.kv[k] =
                          IF k \in DOMAIN new.BeegfsClientConf.kv
                          THEN new.BeegfsClientConf.kv[k]
                          ELSE old.BeegfsClientConf.kv[k]
        IN  /\ ~call.result.panic
            /\ Len(configs) = Len(writeTo) + Cardinality(Added)
            /\ \A i \in 1..Len(writeTo) :
                  /\ configs[i].SysMgmtdHost = writeTo[i].SysMgmtdHost
                  /\ \A j \in 1..Len(writeFrom) :
                        writeFrom[j].SysMgmtdHost = writeTo[i].SysMgmtdHost =>
                            Merged(writeTo[i].Config, writeFrom[j].Config,
                                   configs[i].Config)
                  /\ (\A j \in 1..Len(writeFrom) :
                        writeFrom[j].SysMgmtdHost # writeTo[i].SysMgmtdHost) =>
                            configs[i] = writeTo[i]
            /\ \A j \in Added :
                  \E i \in Len(writeTo) + 1..Len(configs) : configs[i] = writeFrom[j]


\* Some management host of the file system specific configurations of
\* plConfig is neither localhost, an IP address nor a domain name, or some
\* filter of one of its configurations is neither a CIDR nor an IP address.
HasInvalidEntry(plConfig) ==
    \/ \E i \in DOMAIN plConfig.FileSystemSpecificConfigs :
          LET host == plConfig.FileSystemSpecificConfigs[i].SysMgmtdHost
          IN  host # Localhost /\ ~ParseIPOK(host) /\ ~domainRegexMatch(host)
    \/ \E config \in {plConfig.DefaultConfig} \cup
                     {plConfig.FileSystemSpecificConfigs[i].Config :
                         i \in DOMAIN plConfig.FileSystemSpecificConfigs} :
          \E filter \in Range(config.ConnNetFilter) \cup Range(config.ConnTcpOnlyFilter) :
              ~ParseCIDROK(filter) /\ ~ParseIPOK(filter)

\* C21: no partial configuration. parseConfigFromFile returns; when the
\* configuration of the node holds an invalid management host or an invalid
\* filter, it returns an error and the empty PluginConfig.
NoPartialConfiguration ==
    call.op = "parseConfigFromFile" =>
        /\ ~call.result.panic
        /\ HasInvalidEntry(call.nodeScoped.config) =>
              /\ call.result.err
              /\ call.result.config = PluginConfig(zeroBeegfsConfig, <<>>)


\* C22: the management hosts of the file system specific configurations of a
\* resolved PluginConfig are pairwise different, after the node specific
\* configurations and after the connAuth file.
SysMgmtdHostsUnique ==
    (\/ call.op = "parseConfigFromFile" /\ ~call.result.panic /\ ~call.result.err
     \/ call.op = "parseConnAuthFromFile") =>
        LET configs == IF call.op = "parseConfigFromFile"
                       THEN call.result.config.FileSystemSpecificConfigs
                       ELSE call.result.FileSystemSpecificConfigs
        IN  \A i, j \in DOMAIN configs :
                configs[i].SysMgmtdHost = configs[j].SysMgmtdHost => i = j


\* C23: parseConnAuthFromFile sets nothing but secrets. The default
\* configuration is unchanged; every file system specific configuration
\* there was keeps its host, its lists and its client options; a
\* configuration that is added has the host of an entry that had none, and
\* neither lists nor client options; and for every entry the first
\* configuration of its host holds the secret of the last entry of that host.
ConnAuthSetsOnlySecrets ==
    call.op = "parseConnAuthFromFile" =>
        LET before == call.pluginConfig.FileSystemSpecificConfigs
            after == call.result.FileSystemSpecificConfigs
            entries == call.connAuthConfigs
            LastOf(host) == CHOOSE e \in DOMAIN entries :
                               /\ entries[e].SysMgmtdHost = host
                               /\ \A f \in DOMAIN entries :
                                     entries[f].SysMgmtdHost = host => f <= e
        IN  /\ call.result.DefaultConfig = call.pluginConfig.DefaultConfig
            /\ Len(after) >= Len(before)
            /\ \A i \in DOMAIN before :
                  [after[i] EXCEPT !.Config.connAuth = ""] =
                  [before[i] EXCEPT !.Config.connAuth = ""]
            /\ \A i \in DOMAIN after \ DOMAIN before :
                  /\ \E e \in DOMAIN entries : entries[e].SysMgmtdHost = after[i].SysMgmtdHost
                  /\ \A j \in DOMAIN before : before[j].SysMgmtdHost # after[i].SysMgmtdHost
                  /\ after[i].Config.ConnInterfaces = <<>>
                  /\ after[i].Config.ConnNetFilter = <<>>
                  /\ after[i].Config.ConnTcpOnlyFilter = <<>>
                  /\ DOMAIN after[i].Config.BeegfsClientConf.kv = {}
            /\ \A e \in DOMAIN entries :
                  \E i \in DOMAIN after :
                      /\ after[i].SysMgmtdHost = entries[e].SysMgmtdHost
                      /\ \A j \in 1..(i - 1) : after[j].SysMgmtdHost # entries[e].SysMgmtdHost
                      /\ after[i].Config.connAuth =
                            entries[LastOf(entries[e].SysMgmtdHost)].ConnAuth

\* A secret was set in a configuration that has lists and client options,
\* and a configuration was added for another host.
ConnAuthSetsOnlySecretsWitness ==
    /\ call.op = "parseConnAuthFromFile"
    /\ Len(call.result.FileSystemSpecificConfigs) >
          Len(call.pluginConfig.FileSystemSpecificConfigs)
    /\ \E i \in DOMAIN call.pluginConfig.FileSystemSpecificConfigs :
          /\ call.result.FileSystemSpecificConfigs[i].Config.connAuth # ""
          /\ call.pluginConfig.FileSystemSpecificConfigs[i].Config.ConnInterfaces # <<>>
          /\ DOMAIN call.pluginConfig.FileSystemSpecificConfigs[i].Config.BeegfsClientConf.kv # {}


\* C24: an entry of the connAuth file with an empty secret leaves the secret
\* of its host as it was: after parseConnAuthFromFile the first configuration
\* of a host holds the secret of the last entry of that host whose secret is
\* not empty.
EmptySecretKeepsSecret ==
    call.op = "parseConnAuthFromFile" =>
        LET after == call.result.FileSystemSpecificConfigs
            entries == call.connAuthConfigs
            Set(host) == {e \in DOMAIN entries :
                            entries[e].SysMgmtdHost = host /\ entries[e].ConnAuth # ""}
        IN  \A i \in DOMAIN after :
                (/\ Set(after[i].SysMgmtdHost) # {}
                 /\ \A j \in 1..(i - 1) : after[j].SysMgmtdHost # after[i].SysMgmtdHost) =>
                    after[i].Config.connAuth =
                        entries[CHOOSE e \in Set(after[i].SysMgmtdHost) :
                                   \A f \in Set(after[i].SysMgmtdHost) : f <= e].ConnAuth


\* C25: stripConfig. In a PluginConfig that parseConfigFromFile returns, the
\* client options of the default configuration and of every file system
\* specific configuration are those configured for the node without the
\* no-effect options: no no-effect option is left, and every unsupported
\* option configured is there with its value. An error is returned for an
\* invalid host or filter only, never for such an option.
StripRemovesNoEffectOnly ==
    call.op = "parseConfigFromFile" /\ ~call.result.panic =>
        LET configured == call.nodeScoped.config
            resolved == call.result.config
            Stripped(was, is) ==
                /\ DOMAIN is.BeegfsClientConf.kv \cap noEffectBeegfsConfOptions = {}
                /\ \A k \in DOMAIN was.BeegfsClientConf.kv :
                      k \notin noEffectBeegfsConfOptions =>
                          /\ k \in DOMAIN is.BeegfsClientConf.kv
                          /\ is.BeegfsClientConf.kv[k] = was.BeegfsClientConf.kv[k]
                /\ DOMAIN is.BeegfsClientConf.kv \subseteq DOMAIN was.BeegfsClientConf.kv
        IN  /\ call.result.err => HasInvalidEntry(configured)
            /\ ~call.result.err =>
                  /\ Stripped(configured.DefaultConfig, resolved.DefaultConfig)
                  /\ Len(resolved.FileSystemSpecificConfigs) =
                        Len(configured.FileSystemSpecificConfigs)
                  /\ \A i \in DOMAIN configured.FileSystemSpecificConfigs :
                        Stripped(configured.FileSystemSpecificConfigs[i].Config,
                                 resolved.FileSystemSpecificConfigs[i].Config)

\* A file with a no-effect and an unsupported option, in the default
\* configuration and in a file system specific one, was parsed: the first is
\* gone, the second is there.
StripRemovesNoEffectOnlyWitness ==
    /\ call.op = "parseConfigFromFile" /\ ~call.result.panic /\ ~call.result.err
    /\ {"connPortShift", "connAuthFile"} \subseteq
          DOMAIN call.rawConfig.DefaultConfig.BeegfsClientConf.kv
    /\ "connAuthFile" \in DOMAIN call.result.config.DefaultConfig.BeegfsClientConf.kv
    /\ "connPortShift" \notin DOMAIN call.result.config.DefaultConfig.BeegfsClientConf.kv
    /\ \E i \in DOMAIN call.rawConfig.FileSystemSpecificConfigs :
          /\ "connPortShift" \in
                DOMAIN call.rawConfig.FileSystemSpecificConfigs[i].Config.BeegfsClientConf.kv
          /\ DOMAIN call.result.config.FileSystemSpecificConfigs[i].Config.BeegfsClientConf.kv
                \cap (noEffectBeegfsConfOptions \cup unsupportedBeegfsConfOptions)
                = {"connAuthFile"}


\* C26: redaction. What MarshalJSON encodes of a configuration or of an
\* entry of the connAuth file holds the placeholder in place of a secret that
\* is not empty, and no ConnAuth (or an empty one) in place of an empty
\* secret; every other field is encoded as it is. So the encoding is the
\* one of the same configuration or entry with any other non-empty secret.
SecretIsRedacted ==
    /\ call.op = "beegfsConfig.MarshalJSON" =>
          /\ "ConnAuth" \in DOMAIN call.result <=> call.c.connAuth # ""
          /\ call.c.connAuth # "" => call.result["ConnAuth"] = "******"
          /\ call.result["ConnInterfaces"] = call.c.ConnInterfaces
          /\ call.result["ConnNetFilter"] = call.c.ConnNetFilter
          /\ call.result["ConnTcpOnlyFilter"] = call.c.ConnTcpOnlyFilter
          /\ call.result["BeegfsClientConf"] = call.c.BeegfsClientConf
          /\ call.c.connAuth # "" =>
                \A secret \in {"s1", "s2", "s3"} :
                    beegfsConfigMarshalJSON([call.c EXCEPT !.connAuth = secret]) = call.result
    /\ call.op = "connAuthConfig.MarshalJSON" =>
          /\ call.result.SysMgmtdHost = call.c.SysMgmtdHost
          /\ call.result.ConnAuth = IF call.c.ConnAuth # "" THEN "******" ELSE ""
          /\ call.c.ConnAuth # "" =>
                \A secret \in {"s1", "s2", "s3"} :
                    connAuthConfigMarshalJSON([call.c EXCEPT !.ConnAuth = secret]) = call.result

\* A configuration with a secret and with other fields was encoded.
SecretIsRedactedWitness ==
    /\ call.op = "beegfsConfig.MarshalJSON"
    /\ call.c.connAuth = "s2"
    /\ call.c.ConnInterfaces # <<>>
    /\ DOMAIN call.c.BeegfsClientConf.kv # {}


\* C27: the volume ID codec. parseBeegfsUrl(newBeegfsUrl(host, path)) returns
\* host and path without error, for every valid management host and every
\* absolute path; parseBeegfsUrl returns an error for every volume ID whose
\* scheme is not exactly beegfs.
CodecRoundTrip ==
    /\ call.op = "newBeegfsUrl" =>
          /\ ~call.parsed.err
          /\ call.parsed.sysMgmtdHost = call.host
          /\ call.parsed.path = call.path
    /\ call.op = "parseBeegfsUrl" =>
          (~HasPrefix(call.rawUrl, <<"b", "e", "e", "g", "f", "s", ":">>) => call.parsed.err)


\* The volume ID without its scheme, every underscore written twice and
\* every slash replaced by one underscore.
NaiveEncoding(volumeID) ==
    Concat([i \in 1..(Len(volumeID) - Len(SchemePrefix)) |->
               CASE volumeID[i + Len(SchemePrefix)] = "_" -> <<"_", "_">>
                 [] volumeID[i + Len(SchemePrefix)] = "/" -> <<"_">>
                 [] OTHER -> <<volumeID[i + Len(SchemePrefix)]>>],
           1, Len(volumeID) - Len(SchemePrefix))

\* C28: sanitizeVolumeID returns the digest of the volume ID, of 40
\* characters, exactly when the naive encoding is longer than 255
\* characters, and the naive encoding otherwise: what it returns is never
\* longer than 255 characters, and is the same for the same volume ID.
SanitizeHashesOver255 ==
    call.op = "sanitizeVolumeID" =>
        /\ call.result = IF Len(NaiveEncoding(call.volumeID)) > 255
                         THEN Sha1Hex(call.volumeID)
                         ELSE NaiveEncoding(call.volumeID)
        /\ Len(Sha1Hex(call.volumeID)) = 40
        /\ Len(call.result) <= 255
        /\ call.result = sanitizeVolumeID(call.volumeID)

\* A volume ID of fewer than 255 characters was hashed, its naive encoding
\* being longer.
SanitizeHashesOver255Witness ==
    /\ call.op = "sanitizeVolumeID"
    /\ Len(call.volumeID) < 255
    /\ Len(NaiveEncoding(call.volumeID)) = 257
    /\ Len(call.result) = 40


\* C29: sanitizeVolumeID is injective. No other volume ID, of another host
\* or another path, has the directory name of the volume ID it was called
\* with.
SanitizeIsInjective ==
    call.op = "sanitizeVolumeID" =>
        \A volumeID \in SanitizeVolumeIDs :
            volumeID # call.volumeID => sanitizeVolumeID(volumeID) # call.result


\* C30: the PluginConfig is read only after the start. The configuration
\* that squashConfigForSysMgmtdHost returns has none of its slices and not
\* its map in the memory of the PluginConfig, and a write through it leaves
\* the PluginConfig as it was.
PluginConfigIsReadOnly ==
    /\ call.op = "squashConfigForSysMgmtdHost" =>
          \A field \in DOMAIN call.refs :
              /\ call.refs[field] # Refs(DefaultConfigOwner)[field]
              /\ \A i \in DOMAIN call.pluginConfig.FileSystemSpecificConfigs :
                    call.refs[field] # Refs(i)[field]
    /\ call.op = "writeThroughResult" => call.after = call.pluginConfig

\* A slice of the configuration returned was written whose elements are
\* those of a slice of the PluginConfig, for a host with a file system
\* specific configuration.
PluginConfigIsReadOnlyWitness ==
    /\ call.op = "writeThroughResult"
    /\ call.field = "ConnInterfaces"
    /\ \E i \in DOMAIN call.pluginConfig.FileSystemSpecificConfigs :
          /\ call.pluginConfig.FileSystemSpecificConfigs[i].SysMgmtdHost = call.sysMgmtdHost
          /\ call.pluginConfig.FileSystemSpecificConfigs[i].Config.ConnInterfaces # <<>>
    /\ DOMAIN call.pluginConfig.DefaultConfig.BeegfsClientConf.kv # {}


\* The deferred clean up of worker w runs in this step.
CleansUp(w) == pc[w] = "cleanup" /\ pc'[w] = "release"

\* The step removes something below the working directory of worker w: a
\* client file of the local disk, or the directories of a backend.
RemovesBelowWorkingDir(w) ==
    \/ \E f \in files \ files' : IsUnder(f.path, vol[w].mountDirPath)
    \/ \E d \in dirs \ dirs' : IsUnder(d, vol[w].mountDirPath) /\ d # vol[w].mountPath
    \/ backend' # backend

\* C31: the working directory of a volume is not removed recursively while
\* the backend is mounted beneath it. A deferred clean up that removes
\* something below the working directory leaves no mount on the mount path:
\* it removed after the unmount, or there was no mount.
WorkingDirRemovedOnlyUnmounted ==
    [][\A w \in Workers :
          CleansUp(w) /\ RemovesBelowWorkingDir(w) =>
              ~\E m \in mounts' : m.path = vol[w].mountPath]_vars


\* What the local disk holds below path, path itself left out.
HeldBelow(path) ==
    {d \in dirs : IsUnder(d, path) /\ d # path} \cup
    {f.path : f \in {g \in files : IsUnder(g.path, path)}}

\* C32: when a handler calls writeClientFiles, the precondition of
\* writeClientFiles holds: the working directory of the volume exists and
\* is empty.
WriteClientFilesPreconditionHolds ==
    \A w \in Workers :
        pc[w] = "write" =>
            vol[w].mountDirPath \in dirs /\ HeldBelow(vol[w].mountDirPath) = {}


\* The handler of worker w moves on in this step, from the step at to the
\* step next.
Moves(w, at, next) == pc[w] = at /\ pc'[w] = next

\* The client file of the volume of worker w is on the local disk after
\* the step, and the backend is mounted on its mount path after the step.
ClientFileWritten(w) == \E f \in files' : f.path = vol'[w].clientConfPath

MountedAfter(w) == \E m \in mounts' : m.path = vol'[w].mountPath

\* The steps of a handler before its deferred calls
PrimarySteps == {"mkdir", "write", "createDir", "setPattern", "mount", "chmod",
                 "removeAll", "stat"}

\* C33: the order of the steps of a call. The backend is mounted only after
\* the client files of the call were written, the directory of the volume
\* is changed through the mount only after mountIfNecessary succeeded, the
\* unmount and the removal of the working directory come last, and a step
\* of DeleteVolume that fails skips the steps after it and not the clean up.
LifecycleOrder ==
    [][\A w \in Workers :
          pc'[w] # pc[w] =>
              /\ pc'[w] = "write" => pc[w] = "mkdir"
              /\ pc'[w] \in {"createDir", "stat"} =>
                    pc[w] = "write" /\ ClientFileWritten(w)
              /\ pc'[w] = "setPattern" => pc[w] = "createDir"
              /\ pc'[w] = "mount" =>
                    \/ Moves(w, "write", "mount") /\ ClientFileWritten(w)
                    \/ Moves(w, "setPattern", "mount")
              /\ pc'[w] \in {"chmod", "removeAll"} =>
                    pc[w] = "mount" /\ MountedAfter(w)
              /\ pc[w] # "mount" => mounts' \ mounts = {}
              /\ pc[w] \in PrimarySteps =>
                    /\ mounts \ mounts' = {}
                    /\ vol[w].mountDirPath \in dirs => vol[w].mountDirPath \in dirs'
              /\ pc'[w] = "cleanup" => pc[w] \in PrimarySteps
              /\ pc'[w] = "release" => pc[w] = "cleanup"
              /\ pc[w] = "release" => pc'[w] = "idle" /\ UNCHANGED env
              /\ req[w].op = "DeleteVolume" /\ pc[w] \in PrimarySteps =>
                    \/ Moves(w, "mkdir", "write") \/ Moves(w, "write", "mount")
                    \/ Moves(w, "mount", "removeAll")
                    \/ pc'[w] = "cleanup" /\
                          (resp'[w].code = "OK" => pc[w] = "removeAll")]_vars

\* DeleteVolume went through all its steps with the backend mounted, and
\* is about to clean up.
LifecycleOrderWitness ==
    \E w \in Workers :
        /\ pc[w] = "cleanup"
        /\ req[w].op = "DeleteVolume"
        /\ resp[w].code = "OK"
        /\ IsMountPoint(vol[w].mountPath)
        /\ HasFile(vol[w].clientConfPath)


\* C34: the deferred clean up of a call is over before the call releases
\* its volume ID. While a call cleans up its volume ID is held, no other
\* call gets past the lock with that volume ID, and a call gives its volume
\* ID back only in the step that follows its clean up.
CleanUpBeforeRelease ==
    [][\A w \in Workers :
          /\ pc[w] = "cleanup" =>
                /\ vol[w].volumeID \in volumeIDsInFlight
                /\ \A w2 \in Workers \ {w} :
                      Begins(w2) /\ requestVolumeID(req'[w2]) = vol[w].volumeID =>
                          pc'[w2] = "return" /\ resp'[w2].code = "Aborted"
                /\ pc'[w] # pc[w] => pc'[w] = "release"
          /\ InCritical(w) /\ vol[w].volumeID \notin volumeIDsInFlight' =>
                pc[w] = "release" /\ pc'[w] = "idle"]_vars

\* A call is cleaning up, and a second call with its volume ID has been
\* answered Aborted.
CleanUpBeforeReleaseWitness ==
    \E w1, w2 \in Workers :
        /\ pc[w1] = "cleanup"
        /\ pc[w2] = "return" /\ resp[w2].code = "Aborted"
        /\ requestVolumeID(req[w2]) = vol[w1].volumeID
        /\ vol[w1].mountDirPath \in dirs


\* C35: ValidateVolumeCapabilities never mounts and never unmounts. No step
\* of it changes the mount table, it has no step that mounts or that works
\* through a mount, its test for the directory of the volume leaves the
\* local disk and the backends alone, and its clean up is the removal of
\* the working directory and nothing else.
ValidateNeverMounts ==
    [][\A w \in Workers :
          req[w].op = "ValidateVolumeCapabilities" /\ pc'[w] # pc[w] =>
              /\ mounts' = mounts
              /\ pc'[w] \notin {"createDir", "setPattern", "mount", "chmod", "removeAll"}
              /\ pc[w] = "stat" => UNCHANGED env
              /\ pc[w] = "cleanup" =>
                    \E removeOK \in BOOLEAN :
                        [dirs |-> dirs', files |-> files', mounts |-> mounts',
                         backend |-> backend'] =
                            RemoveAll(Env, vol[w].mountDirPath, removeOK).env]_vars

\* ValidateVolumeCapabilities has cleaned up while the backend is mounted
\* on the mount path of its volume, by an earlier call; it is mounted still.
ValidateNeverMountsWitness ==
    \E w \in Workers :
        /\ pc[w] = "release"
        /\ req[w].op = "ValidateVolumeCapabilities"
        /\ IsMountPoint(vol[w].mountPath)


\* C36: every management host of the file system specific configurations of
\* the PluginConfig the driver runs with is localhost, an IP address or a
\* domain name: those of the configuration file, and those of the
\* configurations that parseConnAuthFromFile appends.
ResolvedHostsAreValid ==
    /\ call.op = "parseConfigFromFile" /\ ~call.result.panic /\ ~call.result.err =>
          \A i \in DOMAIN call.result.config.FileSystemSpecificConfigs :
              sysMgmtdHostOK(call.result.config.FileSystemSpecificConfigs[i].SysMgmtdHost)
    /\ call.op = "parseConnAuthFromFile" =>
          \A i \in DOMAIN call.result.FileSystemSpecificConfigs :
              sysMgmtdHostOK(call.result.FileSystemSpecificConfigs[i].SysMgmtdHost)


\* C37: parseConfigFromFile is total. For every configuration file and node
\* it returns a PluginConfig or an error and does not panic; and when a
\* node specific configuration of the node sets beegfsClientConf options
\* and the default configuration of the file has no beegfsClientConf, the
\* PluginConfig returned has these options.
ParseConfigFromFileIsTotal ==
    call.op = "parseConfigFromFile" =>
        /\ ~call.result.panic
        /\ \A i \in DOMAIN call.rawConfig.NodeSpecificConfigs :
              LET nodeConfig == call.rawConfig.NodeSpecificConfigs[i] IN
              /\ call.nodeID \in Range(nodeConfig.NodeList)
              /\ call.rawConfig.DefaultConfig.BeegfsClientConf.isNil
              /\ ~call.result.err
              => \A k \in DOMAIN nodeConfig.DefaultConfig.BeegfsClientConf.kv :
                     k \notin noEffectBeegfsConfOptions =>
                         k \in DOMAIN call.result.config.DefaultConfig.BeegfsClientConf.kv


\* C38: DeleteVolume of a volume whose directory is not on the backend. The
\* removal through the mount, when it succeeds, removes nothing and reports
\* no error; DeleteVolume answers OK, or Internal when the removal failed,
\* and changes neither the backends nor the local disk in that step; and
\* after a clean up without error the backends are as they were, the
\* working directory is gone and nothing is mounted on the mount path, as
\* after the DeleteVolume that removed the directory.
DeleteVolumeIsIdempotent ==
    [][\A w \in Workers :
          req[w].op = "DeleteVolume" /\ BackendDir(vol[w]) \notin backend =>
              /\ Moves(w, "removeAll", "cleanup") =>
                    /\ RemoveAll(Env, vol[w].volDirPath, TRUE) = [err |-> FALSE, env |-> Env]
                    /\ resp'[w].code \in {"OK", "Internal"}
                    /\ UNCHANGED env
              /\ Moves(w, "cleanup", "release") /\ resp[w].code = "OK"
                 /\ ~resp'[w].cleanupFailed =>
                    /\ backend' = backend
                    /\ resp'[w].code = "OK"
                    /\ ~\E d \in dirs' : IsUnder(d, vol[w].mountDirPath)
                    /\ ~\E f \in files' : IsUnder(f.path, vol[w].mountDirPath)
                    /\ ~\E m \in mounts' : m.path = vol[w].mountPath]_vars

\* DeleteVolume of beegfs://h/a/_b, a volume no request creates, is about
\* to return OK after a clean up without error.
DeleteVolumeIsIdempotentWitness ==
    \E w \in Workers :
        /\ pc[w] = "release"
        /\ req[w] = DeleteRequest(VolumeIDB)
        /\ resp[w].code = "OK" /\ ~resp[w].cleanupFailed
        /\ vol[w].mountDirPath \notin dirs

====
